---- MODULE Spec2Model ----
(***************************************************************************)
(* Model of the investor agent's orchestration engine: the top-level       *)
(* think/research/calculate graph (investor_agent.ts), the web researcher  *)
(* graph (subagents.ts), the calculator graph (calculator.ts) and the chat *)
(* service that drives them (InvestorAgentService).                        *)
(*                                                                         *)
(* Texts are sequences of tokens, so that joining, prefixing and           *)
(* truncating are computed rather than assumed.  JS `undefined` is the     *)
(* text UNDEF, which no tool or Oracle produces.                           *)
(***************************************************************************)
EXTENDS Integers, Sequences, FiniteSets, TLC

VARIABLES
    checkpoint,   \* MemorySaver of investorAgentGraph: thread id -> saved state
    st,           \* channel values of the graph invocation in flight
    pc,           \* position of the chat call in flight ("idle" when none)
    wr,           \* WebResearcherState of the research run in flight
    wrNode,       \* next node of the research run ("none" when no run)
    calc,         \* CalculatorState of the calculator run in flight
    calcNode,     \* next node of the calculator run ("none" when no run)
    steps,        \* supersteps the subagent run in flight has executed
    calls,        \* tool calls and latest Oracle answer of the run in flight
    published,    \* status events handed to Redis during the current chat call
    chatRequest,  \* parameters of the most recent chat call, and the
                  \* thread's checkpointed messages when it was made
    decision,     \* the Oracle's latest answer at THINK in the current chat call
    chatResult,   \* outcome of the most recent chat call
    resultCache,  \* the service's result cache: thread id -> entry
    now,          \* Date.now()
    wide,         \* whether the subagent Oracles and tools are unrestricted
    turns,        \* chat calls started so far
    delegations,  \* subagent delegations decided so far
    responded,    \* per thread: chat calls whose THINK ended with a response
    other,        \* a second chat call in flight beside the first: [pc, st]
    got,          \* what the latest getAsyncResult call returned
    ticks,        \* clock advances so far
    puts,         \* per thread: the latest resultCache.set, never removed
    thrown,       \* the error thrown in the current chat call, NoError if none
    sockets,      \* per connection of the status gateway: "open" or "closed"
    clients,      \* AgentStatusGateway.clients: connection -> its ClientInfo
    channels,     \* Redis channels the shared subscriber is subscribed to
    listeners,    \* 'message' listeners on the shared subscriber, oldest first
    wire,         \* messages Redis has sent to the subscriber, not yet received
    emitted,      \* per connection: the status-update events emitted to it
    sent,         \* status updates handed to RedisService.publishStatusUpdate
    researchSaver,    \* MemorySaver of webResearcherGraph: run id -> state
    calculatorSaver,  \* MemorySaver of calculatorGraph: run id -> state
    thread_id,    \* configurable.thread_id of the subagent run in flight
    clockRepeats, \* whether Date.now() can return a reading it returned before
    supersteps,   \* supersteps of the top-level graph invocation in flight
    front,        \* the frontend client: its sendMessage calls, oldest first,
                  \* and what its shared socket has received and emitted
    handlers      \* handleSubscribe calls of the gateway waiting at an await

vars == <<checkpoint, st, pc, wr, wrNode, calc, calcNode, steps,
          calls, published, chatRequest, decision, chatResult, resultCache, now,
          wide, turns, delegations, responded, other, got, ticks,
          puts, thrown, sockets, clients, channels, listeners, wire, emitted,
          sent, researchSaver, calculatorSaver, thread_id, clockRepeats,
          supersteps, front, handlers>>

\* The state of the status gateway and of the Redis subscriber
pubsubVars == <<sockets, clients, channels, listeners, wire, emitted, sent,
                handlers>>

\* The checkpoints of the two subagent graphs, and the clock their run ids
\* are built from
saverVars == <<researchSaver, calculatorSaver, thread_id, clockRepeats>>

-----------------------------------------------------------------------------
(* Bounds of the model *)

MaxTurns == 2          \* chat calls explored
MaxDelegations == 2    \* subagent delegations explored over all chat calls
MaxSubIterations == 1  \* tool calls per subagent run when ~wide
MaxTicks == 3          \* clock advances explored

-----------------------------------------------------------------------------
(* Texts *)

UNDEF == <<"undefined">>

\* JS truthiness of an optional string: undefined and "" are falsy
Truthy(s) == s # UNDEF /\ s # <<>>

\* `${n}` inside a template literal
Num(n) == ToString(n)

\* Array.prototype.join(sep)
RECURSIVE Join(_, _)
Join(blocks, sep) ==
    IF blocks = <<>> THEN <<>>
    ELSE IF Len(blocks) = 1 THEN blocks[1]
    ELSE blocks[1] \o sep \o Join(Tail(blocks), sep)

NN == <<"\\n\\n">>

Last(s) == s[Len(s)]

-----------------------------------------------------------------------------
(* Web researcher subagent: subagents.ts, second half *)

MAX_RESEARCH_ITERATIONS == 10

\* Default recursion limit of a compiled graph; none of the compile or invoke
\* calls overrides it.
RECURSION_LIMIT == 25

webResearcherReducer(left, right) ==
    IF Len(right) > 0 THEN left \o right ELSE left

NoResearchRun ==
    [original_query |-> UNDEF, research_results |-> <<>>,
     planning_steps |-> UNDEF, iteration_count |-> 0, complete |-> FALSE,
     pending_search_query |-> UNDEF, decision_type |-> "undefined"]

\* The input researchNode hands to webResearcherGraph.invoke, which is the
\* state of the run when nothing is saved under its thread id
ResearchInput(query) ==
    [NoResearchRun EXCEPT !.original_query = query]

\* What the Oracle can answer at ANALYZE
SearchQueries == IF wide THEN {<<"q1">>, <<"q2">>, <<>>} ELSE {<<"q1">>}
SummaryTexts == {<<"summary">>}
PlanTexts == {<<"plan">>}

ResearchDecisions ==
    [kind : {"research_summary"}, text : SummaryTexts,
     query : {UNDEF}, hasPlan : {FALSE}, plan : {UNDEF}]
    \cup
    [kind : {"search_query"}, text : {UNDEF},
     query : SearchQueries, hasPlan : {FALSE}, plan : {UNDEF}]
    \cup
    (IF wide
     THEN [kind : {"search_query"}, text : {UNDEF},
           query : SearchQueries, hasPlan : {TRUE}, plan : PlanTexts]
     ELSE {})

previousResultsText(s) ==
    IF Len(s.research_results) > 0 THEN Join(s.research_results, NN) ELSE UNDEF

latestSearchResults(s) ==
    IF Len(s.research_results) > 0 THEN Last(s.research_results) ELSE UNDEF

ForcedResearchSummary(s) ==
    IF Truthy(previousResultsText(s))
    THEN <<"Research Summary (after ", Num(s.iteration_count), " iterations):">>
         \o NN \o previousResultsText(s)
    ELSE <<"Research completed with available information.">>

\* Mutant: the cap is tested with > instead of >=
ResearchAnalyzeUpdate_LateCap(s, d) ==
    IF d.kind = "research_summary"
    THEN [s EXCEPT !.decision_type = "complete",
                   !.research_results = webResearcherReducer(@, <<d.text>>),
                   !.iteration_count = @ + 1,
                   !.complete = TRUE,
                   !.planning_steps = UNDEF]
    ELSE IF s.iteration_count > MAX_RESEARCH_ITERATIONS
    THEN [s EXCEPT !.decision_type = "complete",
                   !.research_results =
                       webResearcherReducer(@, <<ForcedResearchSummary(s)>>),
                   !.iteration_count = @ + 1,
                   !.complete = TRUE,
                   !.planning_steps = UNDEF]
    ELSE [s EXCEPT !.decision_type = "search",
                   !.pending_search_query = d.query,
                   !.planning_steps = IF d.hasPlan THEN d.plan ELSE @]

\* Mutant: forced completion does not append its summary
ResearchAnalyzeUpdate_NoForcedSummary(s, d) ==
    IF d.kind = "research_summary"
    THEN [s EXCEPT !.decision_type = "complete",
                   !.research_results = webResearcherReducer(@, <<d.text>>),
                   !.iteration_count = @ + 1,
                   !.complete = TRUE,
                   !.planning_steps = UNDEF]
    ELSE IF s.iteration_count >= MAX_RESEARCH_ITERATIONS
    THEN [s EXCEPT !.decision_type = "complete",
                   !.iteration_count = @ + 1,
                   !.complete = TRUE,
                   !.planning_steps = UNDEF]
    ELSE [s EXCEPT !.decision_type = "search",
                   !.pending_search_query = d.query,
                   !.planning_steps = IF d.hasPlan THEN d.plan ELSE @]

\* The update analyzeNode returns for Oracle decision d, applied to the state
ResearchAnalyzeUpdate(s, d) ==
    IF d.kind = "research_summary"
    THEN [s EXCEPT !.decision_type = "complete",
                   !.research_results = webResearcherReducer(@, <<d.text>>),
                   !.iteration_count = @ + 1,
                   !.complete = TRUE,
                   !.planning_steps = UNDEF]
    ELSE IF s.iteration_count >= MAX_RESEARCH_ITERATIONS
    THEN [s EXCEPT !.decision_type = "complete",
                   !.research_results =
                       webResearcherReducer(@, <<ForcedResearchSummary(s)>>),
                   !.iteration_count = @ + 1,
                   !.complete = TRUE,
                   !.planning_steps = UNDEF]
    ELSE [s EXCEPT !.decision_type = "search",
                   !.pending_search_query = d.query,
                   !.planning_steps = IF d.hasPlan THEN d.plan ELSE @]

\* The conditional edge after "analyze"
ResearchRoute(s) ==
    IF s.decision_type = "complete" THEN "END"
    ELSE IF s.decision_type = "search" THEN "search"
    ELSE "END"

\* tavilySearch: JSON text of the provider's results for the query
tavilySearch(query) == <<"results:">> \o query

\* The update searchNode returns, applied to the state
ResearchSearchUpdate(s) ==
    IF ~Truthy(s.pending_search_query)
    THEN [s EXCEPT !.decision_type = "complete", !.complete = TRUE]
    ELSE [s EXCEPT !.research_results =
                       webResearcherReducer(@, <<tavilySearch(s.pending_search_query)>>),
                   !.pending_search_query = UNDEF,
                   !.iteration_count = @ + 1,
                   !.complete = FALSE,
                   !.decision_type = "undefined"]

-----------------------------------------------------------------------------
(* Calculator subagent: calculator.ts *)

MAX_CALCULATOR_ITERATIONS == 10

EXEC_SEP == <<"\\n\\n--- Execution Result ---\\n\\n">>

NoCalculatorRun ==
    [calculation_request |-> UNDEF, python_code_response |-> UNDEF,
     all_execution_results |-> <<>>, previous_plannification_steps |-> UNDEF,
     previous_python_code |-> UNDEF, iteration_count |-> 0, complete |-> FALSE,
     pending_python_code |-> UNDEF, pending_plannification_steps |-> UNDEF,
     decision_type |-> "undefined"]

\* The input calculateNode hands to calculatorGraph.invoke, which is the
\* state of the run when nothing is saved under its thread id
CalculatorInput(request) ==
    [NoCalculatorRun EXCEPT !.calculation_request = request]

\* What the Oracle can answer at ANALYZE
ResultTexts == IF wide THEN {<<"42">>, <<>>} ELSE {<<"42">>}
CodeTexts == IF wide THEN {<<"print(x)">>, <<>>} ELSE {<<"print(x)">>}

CalculatorDecisions ==
    [kind : {"calculation_result"}, text : ResultTexts,
     code : {UNDEF}, plan : {UNDEF}]
    \cup
    [kind : {"python_code"}, text : {UNDEF},
     code : CodeTexts, plan : PlanTexts]

\* The results text analyzeNode passes to the Oracle
allResults(s) ==
    IF Len(s.all_execution_results) > 0
    THEN Join(s.all_execution_results, EXEC_SEP)
    ELSE s.python_code_response

ForcedCalculationResult(s) ==
    IF Truthy(s.python_code_response)
    THEN <<"Calculation Result (after ", Num(s.iteration_count), " iterations):">>
         \o NN \o s.python_code_response
    ELSE <<"Calculation completed with available information.">>

\* Mutant: the cap is tested with > instead of >=
CalculatorAnalyzeUpdate_LateCap(s, d) ==
    IF d.kind = "calculation_result"
    THEN [s EXCEPT !.decision_type = "complete",
                   !.python_code_response = d.text,
                   !.iteration_count = @ + 1,
                   !.complete = TRUE]
    ELSE IF s.iteration_count > MAX_CALCULATOR_ITERATIONS
    THEN [s EXCEPT !.decision_type = "complete",
                   !.python_code_response = ForcedCalculationResult(s),
                   !.iteration_count = @ + 1,
                   !.complete = TRUE]
    ELSE [s EXCEPT !.decision_type = "execute",
                   !.pending_python_code = d.code,
                   !.pending_plannification_steps = d.plan]

\* The update analyzeNode returns for Oracle decision d, applied to the state
CalculatorAnalyzeUpdate(s, d) ==
    IF d.kind = "calculation_result"
    THEN [s EXCEPT !.decision_type = "complete",
                   !.python_code_response = d.text,
                   !.iteration_count = @ + 1,
                   !.complete = TRUE]
    ELSE IF s.iteration_count >= MAX_CALCULATOR_ITERATIONS
    THEN [s EXCEPT !.decision_type = "complete",
                   !.python_code_response = ForcedCalculationResult(s),
                   !.iteration_count = @ + 1,
                   !.complete = TRUE]
    ELSE [s EXCEPT !.decision_type = "execute",
                   !.pending_python_code = d.code,
                   !.pending_plannification_steps = d.plan]

\* The conditional edge after "analyze"
CalculatorRoute(s) ==
    IF s.decision_type = "complete" THEN "END"
    ELSE IF s.decision_type = "execute" THEN "execute"
    ELSE "END"

\* Outcomes of the Python interpreter tool for a piece of code
ToolOutcomes ==
    {[ok |-> TRUE, text |-> <<"out">>], [ok |-> FALSE, text |-> <<"boom">>]}

\* initializePyodide rejecting: the interpreter could not be loaded
SandboxUnavailable == [ok |-> FALSE, text |-> <<"Failed to load pyodide">>]

\* pythonExecutor: the stringified result, or the caught failure as a text;
\* it never throws
pythonExecutor(code, outcome) ==
    IF outcome.ok
    THEN <<"json(">> \o outcome.text \o <<")">>
    ELSE <<"Execution error: ">> \o outcome.text

\* Mutant: the result is kept as the latest response only, not accumulated
CalculatorExecuteUpdate_NoAppend(s, executionResult) ==
    IF ~Truthy(s.pending_python_code)
    THEN [s EXCEPT !.decision_type = "complete", !.complete = TRUE]
    ELSE [s EXCEPT !.python_code_response = executionResult,
                   !.previous_plannification_steps = s.pending_plannification_steps,
                   !.previous_python_code = s.pending_python_code,
                   !.pending_python_code = UNDEF,
                   !.pending_plannification_steps = UNDEF,
                   !.iteration_count = @ + 1,
                   !.complete = FALSE,
                   !.decision_type = "undefined"]

\* The update executeNode returns, applied to the state; executionResult is
\* what pythonExecutor returned (the catch branch builds the same update from
\* the thrown message, and pythonExecutor does not throw)
CalculatorExecuteUpdate(s, executionResult) ==
    IF ~Truthy(s.pending_python_code)
    THEN [s EXCEPT !.decision_type = "complete", !.complete = TRUE]
    ELSE [s EXCEPT !.python_code_response = executionResult,
                   !.all_execution_results = Append(@, executionResult),
                   !.previous_plannification_steps = s.pending_plannification_steps,
                   !.previous_python_code = s.pending_python_code,
                   !.pending_python_code = UNDEF,
                   !.pending_plannification_steps = UNDEF,
                   !.iteration_count = @ + 1,
                   !.complete = FALSE,
                   !.decision_type = "undefined"]

-----------------------------------------------------------------------------
(* Top-level agent: investor_agent.ts, the version that imports calculator.js *)

\* Thread ids the checkpointer and the result cache hold state for
ThreadIds == {"t1", "t2"}

RES_SEP == <<"\\n\\n---\\n\\n">>

NoInput == [kind |-> "undefined", text |-> UNDEF, msgs |-> <<>>]

\* Mutant: a non-empty update replaces the stored messages
messagesReducer_Replaces(left, right) ==
    IF Len(right) > 0 THEN right ELSE left

messagesReducer(left, right) ==
    IF Len(right) > 0 THEN left \o right ELSE left

\* Channel values of a thread that has no checkpoint yet (schema defaults)
InitialState ==
    [input |-> NoInput, threadId |-> "none", messages |-> <<>>, turnCount |-> 0,
     research_results |-> UNDEF, calculation_results |-> UNDEF,
     accumulated_research_results |-> <<>>,
     accumulated_calculation_results |-> <<>>,
     current_action |-> "thinking",
     pending_research_query |-> UNDEF, pending_calculation_request |-> UNDEF,
     planning_steps |-> UNDEF]

\* A status event as handed to RedisService.publishStatusUpdate
Event(status, progress, researchResults, calculationResults, error) ==
    [status |-> status, progress |-> progress,
     researchResults |-> researchResults,
     calculationResults |-> calculationResults, error |-> error]

Status(status) == Event(status, UNDEF, UNDEF, UNDEF, UNDEF)

PREVIEW_LIMIT == 500

\* Mutant: the preview is the whole text
Substring0_Whole(text, n) == text

\* String.prototype.substring(0, n), a token counting as one character
Substring0(text, n) == SubSeq(text, 1, IF Len(text) < n THEN Len(text) ELSE n)

\* What the Oracle can answer at THINK
TopQueries == {<<"q1">>, <<>>}
TopRequests == {<<"r1">>, <<>>}
QuestionTexts == {<<"which?">>}
ResponseTexts == {<<"answer">>}

TopDecisions ==
    [kind : {"research_query"}, text : TopQueries,
     hasPlan : BOOLEAN, plan : PlanTexts]
    \cup
    [kind : {"calculation_request"}, text : TopRequests,
     hasPlan : BOOLEAN, plan : PlanTexts]
    \cup
    [kind : {"question"}, text : QuestionTexts, hasPlan : {FALSE}, plan : PlanTexts]
    \cup
    [kind : {"response"}, text : ResponseTexts, hasPlan : {FALSE}, plan : PlanTexts]

allResearchResults(s) ==
    s.accumulated_research_results
    \o (IF Truthy(s.research_results) THEN <<s.research_results>> ELSE <<>>)

allCalculationResults(s) ==
    s.accumulated_calculation_results
    \o (IF Truthy(s.calculation_results) THEN <<s.calculation_results>> ELSE <<>>)

combinedResearchResults(s) ==
    IF Len(allResearchResults(s)) > 0
    THEN Join(allResearchResults(s), RES_SEP) ELSE UNDEF

combinedCalculationResults(s) ==
    IF Len(allCalculationResults(s)) > 0
    THEN Join(allCalculationResults(s), RES_SEP) ELSE UNDEF

planningSteps(d) == IF d.hasPlan THEN d.plan ELSE UNDEF

\* Mutant: delegating research also clears the accumulated results
ThinkResearch_ClearsAccumulated(s, d) ==
    [s EXCEPT !.current_action = "researching",
              !.pending_research_query = d.text,
              !.planning_steps = planningSteps(d),
              !.research_results = UNDEF,
              !.calculation_results = UNDEF,
              !.accumulated_research_results = <<>>,
              !.accumulated_calculation_results = <<>>]

\* thinkNode, "research_query" in decision
ThinkResearch(s, d) ==
    [s EXCEPT !.current_action = "researching",
              !.pending_research_query = d.text,
              !.planning_steps = planningSteps(d),
              !.research_results = UNDEF,
              !.calculation_results = UNDEF]

\* thinkNode, "calculation_request" in decision
ThinkCalculate(s, d) ==
    [s EXCEPT !.current_action = "calculating",
              !.pending_calculation_request = d.text,
              !.planning_steps = planningSteps(d),
              !.research_results = UNDEF,
              !.calculation_results = UNDEF]

\* Mutant: asking also clears the planning steps
ThinkAsk_ClearsPlan(s, d) ==
    [s EXCEPT !.current_action = "asking",
              !.messages =
                  messagesReducer(@, <<[role |-> "assistant", message |-> d.text]>>),
              !.planning_steps = UNDEF,
              !.research_results = UNDEF,
              !.calculation_results = UNDEF,
              !.accumulated_research_results = <<>>,
              !.accumulated_calculation_results = <<>>]

\* thinkNode, "question" in decision
ThinkAsk(s, d) ==
    [s EXCEPT !.current_action = "asking",
              !.messages =
                  messagesReducer(@, <<[role |-> "assistant", message |-> d.text]>>),
              !.research_results = UNDEF,
              !.calculation_results = UNDEF,
              !.accumulated_research_results = <<>>,
              !.accumulated_calculation_results = <<>>]

\* Mutant: responding keeps the planning steps
ThinkRespond_KeepsPlan(s, d) ==
    [s EXCEPT !.current_action = "responding",
              !.messages =
                  messagesReducer(@, <<[role |-> "assistant", message |-> d.text]>>),
              !.turnCount = @ + 1,
              !.research_results = UNDEF,
              !.calculation_results = UNDEF,
              !.accumulated_research_results = <<>>,
              !.accumulated_calculation_results = <<>>]

\* thinkNode, "response" in decision
ThinkRespond(s, d) ==
    [s EXCEPT !.current_action = "responding",
              !.messages =
                  messagesReducer(@, <<[role |-> "assistant", message |-> d.text]>>),
              !.turnCount = @ + 1,
              !.planning_steps = UNDEF,
              !.research_results = UNDEF,
              !.calculation_results = UNDEF,
              !.accumulated_research_results = <<>>,
              !.accumulated_calculation_results = <<>>]

\* The update thinkNode returns for Oracle decision d, applied to the state
ThinkUpdate(s, d) ==
    CASE d.kind = "research_query" -> ThinkResearch(s, d)
      [] d.kind = "calculation_request" -> ThinkCalculate(s, d)
      [] d.kind = "question" -> ThinkAsk(s, d)
      [] d.kind = "response" -> ThinkRespond(s, d)

\* The status event thinkNode publishes once the Oracle has decided d
ThinkEvent(d) ==
    CASE d.kind = "research_query" ->
             Event("researching", planningSteps(d), UNDEF, UNDEF, UNDEF)
      [] d.kind = "calculation_request" ->
             Event("calculating", planningSteps(d), UNDEF, UNDEF, UNDEF)
      [] d.kind = "question" -> Status("asking")
      [] d.kind = "response" -> Status("responding")

\* The conditional edge after "think"
ThinkRoute(s) ==
    CASE s.current_action = "researching" -> "research"
      [] s.current_action = "calculating" -> "calculate"
      [] s.current_action \in {"responding", "asking"} -> "END"
      [] OTHER -> "think"

\* researchNode's update once webResearcherGraph.invoke has returned r
finalResearchResults(r) == Join(r.research_results, NN)

ResearchNodeUpdate(s, r) ==
    [s EXCEPT !.research_results = finalResearchResults(r),
              !.accumulated_research_results = Append(@, finalResearchResults(r)),
              !.current_action = "thinking",
              !.pending_research_query = UNDEF]

\* calculateNode's update once calculatorGraph.invoke has returned c
finalCalculationResult(c) ==
    IF Truthy(c.python_code_response)
    THEN c.python_code_response ELSE <<"Calculation completed">>

CalculateNodeUpdate(s, c) ==
    [s EXCEPT !.calculation_results = finalCalculationResult(c),
              !.accumulated_calculation_results = Append(@, finalCalculationResult(c)),
              !.current_action = "thinking",
              !.pending_calculation_request = UNDEF]

\* formatInputNode
FormatInputUpdate(s) ==
    CASE s.input.kind = "string" /\ Truthy(s.input.text) ->
             [s EXCEPT !.messages =
                           messagesReducer(@, <<[role |-> "user", message |-> s.input.text]>>),
                       !.input = NoInput]
      [] s.input.kind = "messages" ->
             [s EXCEPT !.messages = messagesReducer(@, s.input.msgs),
                       !.input = NoInput]
      [] OTHER -> s

-----------------------------------------------------------------------------
(* Chat service: InvestorAgentService *)

CACHE_TTL == 300000

\* Requests: the thread ids, messages and explicit histories chat is called with
ChatThreads == {"t1"}
UserTexts == {<<"hello">>}
Histories == {<<>>, <<[role |-> "user", message |-> <<"earlier">>]>>}

NoChatResult ==
    [threadId |-> "none", messages |-> <<>>, turnCount |-> 0,
     currentAction |-> "undefined", researchResults |-> UNDEF,
     calculationResults |-> UNDEF]

NoEntry == [present |-> FALSE, result |-> NoChatResult, timestamp |-> 0]

\* chat: the input state built from the request
inputState(message, messages) ==
    IF Len(messages) > 0
    THEN [kind |-> "messages", text |-> UNDEF, msgs |-> messages]
    ELSE [kind |-> "string", text |-> message, msgs |-> <<>>]

\* chat: the ChatResult built from the graph's final state
ChatResultOf(t, result) ==
    [threadId |-> t, messages |-> result.messages,
     turnCount |-> result.turnCount,
     currentAction |-> result.current_action,
     researchResults |-> result.research_results,
     calculationResults |-> result.calculation_results]

\* Mutant: the sweep keeps an entry that is exactly CACHE_TTL old
cleanupCache_Late(cache, time) ==
    [t \in DOMAIN cache |->
        IF cache[t].present /\ time - cache[t].timestamp > CACHE_TTL
        THEN NoEntry ELSE cache[t]]

\* cleanupCache
cleanupCache(cache, time) ==
    [t \in DOMAIN cache |->
        IF cache[t].present /\ time - cache[t].timestamp >= CACHE_TTL
        THEN NoEntry ELSE cache[t]]

\* resultCache.set followed by cleanupCache
CachePut(cache, t, result, time) ==
    cleanupCache([cache EXCEPT ![t] =
                     [present |-> TRUE, result |-> result, timestamp |-> time]],
                 time)

\* Thrown values.  An Error has a name and a message, texts made of the
\* fragments that getUserFriendlyError looks for; any other thrown value
\* has isError = FALSE.
NoError == [isError |-> FALSE, name |-> UNDEF, message |-> UNDEF]

Err(name, message) == [isError |-> TRUE, name |-> name, message |-> message]

\* Error.prototype.stack: the name, the message and the call frames
Stack(error) == error.name \o <<": ">> \o error.message \o <<"\n    at ">>

\* A thrown string
ThrownString == [isError |-> FALSE, name |-> UNDEF, message |-> <<"boom">>]

\* redisService.publishStatusUpdate rejecting: ioredis with its connection closed
PublishError == Err(<<"Error">>, <<"Connection", " is closed.">>)

\* tavilySearch without TAVILY_API_KEY
SearchError ==
    Err(<<"Error">>, <<"TAVILY_", "API", "_KEY environment variable is not set">>)

\* A graph run that needs more than RECURSION_LIMIT supersteps
RecursionError ==
    Err(<<"Graph", "Recursion", "Error">>, <<"Recursion limit of 25 reached">>)

\* An Oracle call failing for no reason getUserFriendlyError knows of
OracleError == Err(<<"Error">>, <<"Failed to parse LLM response">>)

\* What an Oracle call can throw
OracleErrors ==
    { OracleError, ThrownString,
      Err(<<"Type", "Error">>, <<"Cannot read properties of undefined">>),
      Err(<<"Error">>, <<"x ", "is not a function">>),
      Err(<<"Error">>, <<"Request ", "timeout">>),
      Err(<<"Error">>, <<"API", " ", "timeout">>),
      Err(<<"Error">>, <<"503", " ", "Service", " Unavailable">>),
      Err(<<"Error">>, <<"401", " ", "Unauthorized">>),
      Err(<<"Error">>, <<"429", " ", "Too Many Requests">>),
      Err(<<"Error">>, <<"Invalid", " ", "input">>),
      Err(<<"Error">>, <<"Validation", " failed">>) }

Errors == OracleErrors \cup {PublishError, SearchError, RecursionError}

\* String.prototype.toLowerCase, fragment by fragment
LowerCased ==
    [f \in {"Type", "Error", "Graph", "Recursion", "Connection", "TAVILY_",
            "API", "Request ", "Service", "Unauthorized", "Invalid", "Validation",
            " Unavailable", "Too Many Requests", "Recursion limit of 25 reached",
            "Cannot read properties of undefined", "Failed to parse LLM response",
            "_KEY environment variable is not set"} |->
        CASE f = "Type" -> "type"
          [] f = "Error" -> "error"
          [] f = "Graph" -> "graph"
          [] f = "Recursion" -> "recursion"
          [] f = "Connection" -> "connection"
          [] f = "TAVILY_" -> "tavily_"
          [] f = "API" -> "api"
          [] f = "Request " -> "request "
          [] f = "Service" -> "service"
          [] f = "Unauthorized" -> "unauthorized"
          [] f = "Invalid" -> "invalid"
          [] f = "Validation" -> "validation"
          [] f = " Unavailable" -> " unavailable"
          [] f = "Too Many Requests" -> "too many requests"
          [] f = "Recursion limit of 25 reached" -> "recursion limit of 25 reached"
          [] f = "Cannot read properties of undefined"
               -> "cannot read properties of undefined"
          [] f = "Failed to parse LLM response" -> "failed to parse llm response"
          [] f = "_KEY environment variable is not set"
               -> "_key environment variable is not set"]

toLowerCase(text) ==
    [i \in DOMAIN text |->
        IF text[i] \in DOMAIN LowerCased THEN LowerCased[text[i]] ELSE text[i]]

\* String.prototype.includes for a needle that is one fragment
includes(text, needle) == \E i \in DOMAIN text : text[i] = needle

\* The texts getUserFriendlyError returns
UnexpectedText == <<"An unexpected error occurred. Please try again.">>
InternalText ==
    <<"An internal error occurred. Our team has been notified. Please try again in a moment.">>
ConnectionText ==
    <<"Connection issue. Please check your internet connection and try again.">>
ServiceText == <<"Service temporarily unavailable. Please try again in a moment.">>
AuthText == <<"Authentication error. Please refresh the page and try again.">>
RateLimitText == <<"Too many requests. Please wait a moment and try again.">>
InvalidInputText == <<"Invalid input. Please check your message and try again.">>
ProcessingText == <<"An error occurred processing your request. Please try again.">>
DefaultText ==
    <<"Something went wrong. Please try again. If the problem persists, contact support.">>

FriendlyTexts ==
    {UnexpectedText, InternalText, ConnectionText, ServiceText, AuthText,
     RateLimitText, InvalidInputText, ProcessingText, DefaultText}

\* Whether one of the needles is in the text
includesAny(text, needles) == \E n \in needles : includes(text, n)

\* Mutant: a user input validation error keeps its own message
getUserFriendlyError_KeepsValidation(error) ==
    IF ~error.isError THEN UnexpectedText
    ELSE
    LET errorMessage == toLowerCase(error.message)
        errorName == toLowerCase(error.name)
    IN  IF \/ includesAny(errorName, {"type", "null", "undefined", "assertion"})
           \/ includesAny(errorMessage, {"cannot read property", "is not defined",
                                         "is not a function"})
        THEN InternalText
        ELSE IF includesAny(errorMessage,
                            {"timeout", "network", "fetch", "connection"})
        THEN ConnectionText
        ELSE IF includesAny(errorMessage, {"api", "service", "500", "503"})
        THEN ServiceText
        ELSE IF includesAny(errorMessage,
                            {"unauthorized", "forbidden", "401", "403"})
        THEN AuthText
        ELSE IF includesAny(errorMessage,
                            {"rate limit", "too many requests", "429"})
        THEN RateLimitText
        ELSE IF includesAny(errorMessage, {"validation", "invalid"})
        THEN IF includesAny(errorMessage, {"message", "input", "required"})
             THEN error.message
             ELSE ProcessingText
        ELSE DefaultText

\* getUserFriendlyError
getUserFriendlyError(error) ==
    IF ~error.isError THEN UnexpectedText
    ELSE
    LET errorMessage == toLowerCase(error.message)
        errorName == toLowerCase(error.name)
    IN  IF \/ includesAny(errorName, {"type", "null", "undefined", "assertion"})
           \/ includesAny(errorMessage, {"cannot read property", "is not defined",
                                         "is not a function"})
        THEN InternalText
        ELSE IF includesAny(errorMessage,
                            {"timeout", "network", "fetch", "connection"})
        THEN ConnectionText
        ELSE IF includesAny(errorMessage, {"api", "service", "500", "503"})
        THEN ServiceText
        ELSE IF includesAny(errorMessage,
                            {"unauthorized", "forbidden", "401", "403"})
        THEN AuthText
        ELSE IF includesAny(errorMessage,
                            {"rate limit", "too many requests", "429"})
        THEN RateLimitText
        ELSE IF includesAny(errorMessage, {"validation", "invalid"})
        THEN IF includesAny(errorMessage, {"message", "input", "required"})
             THEN InvalidInputText
             ELSE ProcessingText
        ELSE DefaultText

\* The `error` event chat and chatAsync publish for a thrown value
ErrorEvent(error) == Event("error", UNDEF, UNDEF, UNDEF, getUserFriendlyError(error))

NoCalls == [search |-> 0, exec |-> 0, lastExec |-> "none",
            asked |-> "none", text |-> UNDEF]

NoRequest == [threadId |-> "none", message |-> UNDEF, messages |-> <<>>,
              async |-> FALSE, prior |-> <<>>]

NoDecision == [kind |-> "none", text |-> UNDEF, hasPlan |-> FALSE, plan |-> UNDEF]

subVars == <<wr, wrNode, calc, calcNode, steps, calls>>

NoOther == [pc |-> "idle", st |-> InitialState]

\* getAsyncResult returning null
NoResult == [threadId |-> "none", found |-> FALSE, result |-> NoChatResult]

Save(s) == [checkpoint EXCEPT ![s.threadId] = s]

-----------------------------------------------------------------------------
(* Status delivery: RedisService (one publisher and one subscriber connection
   for the whole process) and AgentStatusGateway.  Redis sends a published
   message once to every connection subscribed to its channel, and a
   connection receives what it is sent in the order it was sent. *)

\* Transport connections of the gateway
Conns == {"c1", "c2"}

MaxListeners == 3   \* subscribe operations explored
MaxPublished == 2   \* status updates explored

\* channelPrefix + threadId
Channel(t) == <<"agent:status:", t>>

\* No entry in AgentStatusGateway.clients
NoClient == [present |-> FALSE, threadId |-> "none"]

\* The thread_id researchNode and calculateNode build for a delegation:
\* `research-${turnCount}-${Date.now()}` and `calc-${turnCount}-${Date.now()}`
\* (the prefix is implied by the saver the id is used with)
RunId(turnCount, time) == <<turnCount, time>>

NoRunId == <<0, 0>>

\* Milliseconds by which Date.now() has advanced when a delegation reads it;
\* 0 is a reading it returned before
ClockSteps == {0, 1}

\* MemorySaver.put
Put(saver, id, state) ==
    [k \in DOMAIN saver \cup {id} |-> IF k = id THEN state ELSE saver[k]]

\* webResearcherGraph.invoke(input, {thread_id}): the input is written over
\* the channels saved under the id, research_results through its reducer
ResearchResume(saver, id, query) ==
    IF id \in DOMAIN saver
    THEN [saver[id] EXCEPT !.original_query = query,
                           !.research_results = webResearcherReducer(@, <<>>),
                           !.iteration_count = 0,
                           !.complete = FALSE]
    ELSE ResearchInput(query)

\* calculatorGraph.invoke(input, {thread_id}): the four channels of the input
\* are overwritten, the others keep what is saved under the id
CalculatorResume(saver, id, request) ==
    IF id \in DOMAIN saver
    THEN [saver[id] EXCEPT !.calculation_request = request,
                           !.iteration_count = 0,
                           !.complete = FALSE,
                           !.all_execution_results = <<>>]
    ELSE CalculatorInput(request)

\* The checkpoints a later run can still be given: every one when the clock
\* can repeat a reading, none of a finished run when each run id is new
Live(saver) == [k \in {x \in DOMAIN saver : clockRepeats} |-> saver[k]]

InitSavers ==
    /\ researchSaver = [k \in {} |-> NoResearchRun]
    /\ calculatorSaver = [k \in {} |-> NoCalculatorRun]
    /\ thread_id = NoRunId

\* The frontend before any sendMessage call: no call, and the shared socket
\* of getSocket has received and emitted nothing
InitFront == [calls |-> <<>>, next |-> 1, turn |-> 0, unsubscribes |-> 0]

InitPubSub ==
    /\ sockets = [c \in Conns |-> "open"]
    /\ clients = [c \in Conns |-> NoClient]
    /\ channels = {}
    /\ listeners = <<>>
    /\ wire = <<>>
    /\ emitted = [c \in Conns |-> <<>>]
    /\ sent = 0
    /\ handlers = {}

\* The function subscribeToStatusUpdates returns, called for the entry of c:
\* the subscriber leaves the channel, and its listener stays
unsubscribe(c) ==
    IF clients[c].present
    THEN channels \ {Channel(clients[c].threadId)}
    ELSE channels

chatVars == <<checkpoint, st, pc, wr, wrNode, calc, calcNode, steps, calls,
              published, chatRequest, decision, chatResult, resultCache, now,
              wide, turns, delegations, responded, other, got, ticks, puts,
              thrown, saverVars, supersteps, front>>

\* handleSubscribe for a connection and a thread id
HandleSubscribe(c, t) ==
    /\ sockets[c] = "open"
    /\ Len(listeners) < MaxListeners
    /\ channels' = unsubscribe(c) \cup {Channel(t)}
    /\ listeners' = Append(listeners, [client |-> c, channel |-> Channel(t)])
    /\ clients' = [clients EXCEPT ![c] = [present |-> TRUE, threadId |-> t]]
    /\ UNCHANGED <<sockets, wire, emitted, sent, handlers>>
    /\ UNCHANGED chatVars

\* handleUnsubscribe for a connection that has an entry
HandleUnsubscribe(c) ==
    /\ sockets[c] = "open"
    /\ clients[c].present
    /\ channels' = unsubscribe(c)
    /\ clients' = [clients EXCEPT ![c] = NoClient]
    /\ UNCHANGED <<sockets, listeners, wire, emitted, sent, handlers>>
    /\ UNCHANGED chatVars

\* handleDisconnect
HandleDisconnect(c) ==
    /\ sockets[c] = "open"
    /\ sockets' = [sockets EXCEPT ![c] = "closed"]
    /\ channels' = unsubscribe(c)
    /\ clients' = [clients EXCEPT ![c] = NoClient]
    /\ UNCHANGED <<listeners, wire, emitted, sent, handlers>>
    /\ UNCHANGED chatVars

\* RedisService.publishStatusUpdate for a thread: Redis sends the message to
\* the subscriber if it is subscribed to the thread's channel
PublishStatusUpdate(t) ==
    /\ sent < MaxPublished
    /\ sent' = sent + 1
    /\ wire' = IF Channel(t) \in channels
               THEN Append(wire, [channel |-> Channel(t),
                                  update |-> [threadId |-> t, n |-> sent + 1]])
               ELSE wire
    /\ UNCHANGED <<sockets, clients, channels, listeners, emitted, handlers>>
    /\ UNCHANGED chatVars

\* The events the listeners registered for c emit for a received message
Emits(c, msg) ==
    LET mine == SelectSeq(listeners,
                          LAMBDA l : l.client = c /\ l.channel = msg.channel)
    IN  [i \in 1..Len(mine) |-> msg.update]

\* Mutant: the subscriber receives the newest message first
Received_Newest(w) == [msg |-> w[Len(w)], rest |-> SubSeq(w, 1, Len(w) - 1)]

\* The message the subscriber receives next, and what stays on the wire
Received(w) == [msg |-> Head(w), rest |-> Tail(w)]

\* The subscriber's 'message' event: every listener whose channel matches
\* calls its callback, which emits `status-update` to its connection
Deliver ==
    /\ wire # <<>>
    /\ wire' = Received(wire).rest
    /\ emitted' = [c \in Conns |-> emitted[c] \o Emits(c, Received(wire).msg)]
    /\ UNCHANGED <<sockets, clients, channels, listeners, sent, handlers>>
    /\ UNCHANGED chatVars

(* handleSubscribe as the event loop runs it: the handler gives up control
   at each await, and another message of the gateway can be handled before
   it resumes.  A Redis command takes effect when it is sent. *)

\* handleSubscribe up to its first await: the previous subscription's
\* unsubscribe if the connection has an entry, else the SUBSCRIBE of
\* subscribeToStatusUpdates
SubscribeBegin(c, t) ==
    /\ sockets[c] = "open"
    /\ Len(listeners) + Cardinality(handlers) < MaxListeners
    /\ \A h \in handlers : ~(h.client = c /\ h.threadId = t)
    /\ IF clients[c].present
       THEN /\ channels' = unsubscribe(c)
            /\ handlers' = handlers \cup
                   {[client |-> c, threadId |-> t, at |-> "unsubscribe"]}
       ELSE /\ channels' = channels \cup {Channel(t)}
            /\ handlers' = handlers \cup
                   {[client |-> c, threadId |-> t, at |-> "subscribe"]}
    /\ UNCHANGED <<sockets, clients, listeners, wire, emitted, sent>>
    /\ UNCHANGED chatVars

\* handleSubscribe from the await of the previous unsubscribe to the await
\* of subscriber.subscribe
SubscribeResume(h) ==
    /\ h \in handlers /\ h.at = "unsubscribe"
    /\ channels' = channels \cup {Channel(h.threadId)}
    /\ handlers' = (handlers \ {h}) \cup {[h EXCEPT !.at = "subscribe"]}
    /\ UNCHANGED <<sockets, clients, listeners, wire, emitted, sent>>
    /\ UNCHANGED chatVars

\* handleSubscribe from the await of subscriber.subscribe to its end: the
\* listener is added and the entry of the connection is set
SubscribeFinish(h) ==
    /\ h \in handlers /\ h.at = "subscribe"
    /\ listeners' = Append(listeners, [client |-> h.client,
                                       channel |-> Channel(h.threadId)])
    /\ clients' = [clients EXCEPT ![h.client] =
                       [present |-> TRUE, threadId |-> h.threadId]]
    /\ handlers' = handlers \ {h}
    /\ UNCHANGED <<sockets, channels, wire, emitted, sent>>
    /\ UNCHANGED chatVars

HandlerStates ==
    [client : Conns, threadId : ThreadIds, at : {"unsubscribe", "subscribe"}]

\* Subscribe messages of the connections, handled as they arrive
NextSubscribe ==
    \/ \E c \in Conns, t \in ThreadIds : SubscribeBegin(c, t)
    \/ \E h \in HandlerStates : SubscribeResume(h)
    \/ \E h \in HandlerStates : SubscribeFinish(h)

NextPubSub ==
    \/ \E c \in Conns, t \in ThreadIds : HandleSubscribe(c, t)
    \/ \E c \in Conns : HandleUnsubscribe(c)
    \/ \E c \in Conns : HandleDisconnect(c)
    \/ \E t \in ThreadIds : PublishStatusUpdate(t)
    \/ Deliver

-----------------------------------------------------------------------------
(* Actions of the chat service *)

\* chat: the initial publish succeeds and the graph is invoked with the input
\* written over the thread's checkpointed channels
ChatStart(t, message, messages) ==
    /\ pc = "idle"
    /\ turns < MaxTurns
    /\ turns' = turns + 1
    /\ published' = <<Status("thinking")>>
    /\ st' = [checkpoint[t] EXCEPT !.input = inputState(message, messages),
                                   !.threadId = t]
    /\ checkpoint' = Save(st')
    /\ pc' = "format_input"
    /\ chatResult' = [kind |-> "running", value |-> NoChatResult]
    /\ chatRequest' = [threadId |-> t, message |-> message,
                       messages |-> messages, async |-> FALSE,
                       prior |-> checkpoint[t].messages]
    /\ decision' = NoDecision
    /\ thrown' = NoError
    /\ UNCHANGED <<resultCache, now, wide, puts, got, ticks, other,
                   delegations, responded>>
    /\ UNCHANGED subVars
    /\ UNCHANGED pubsubVars
    /\ UNCHANGED saverVars
    /\ supersteps' = 0
    /\ UNCHANGED front

\* chat: the initial publish throws, before the try block
ChatStartPublishFails(t, message, messages) ==
    /\ pc = "idle"
    /\ turns < MaxTurns
    /\ turns' = turns + 1
    /\ published' = <<Status("thinking")>>
    /\ chatResult' = [kind |-> "threw", value |-> NoChatResult]
    /\ chatRequest' = [threadId |-> t, message |-> message,
                       messages |-> messages, async |-> FALSE,
                       prior |-> checkpoint[t].messages]
    /\ decision' = NoDecision
    /\ thrown' = PublishError
    /\ UNCHANGED <<checkpoint, st, pc, resultCache, now, wide, puts, got,
                   ticks, other, delegations, responded>>
    /\ UNCHANGED subVars
    /\ UNCHANGED pubsubVars
    /\ UNCHANGED saverVars
    /\ UNCHANGED <<supersteps, front>>

\* chatAsync: the handler of chat's rejection publishes `error` once more
chatAsyncCatch(request, error) ==
    IF request.async THEN <<ErrorEvent(error)>> ELSE <<>>

\* chat: the graph reached END, the result is cached and `complete` published
ChatReturn ==
    /\ pc = "END"
    /\ LET r == ChatResultOf(st.threadId, st) IN
       /\ resultCache' = CachePut(resultCache, st.threadId, r, now)
       /\ chatResult' = [kind |-> "ok", value |-> r]
    /\ published' = Append(published,
                           Event("complete", UNDEF, st.research_results,
                                 st.calculation_results, UNDEF))
    /\ pc' = "idle"
    /\ st' = InitialState
    /\ puts' = [puts EXCEPT ![st.threadId] =
                 [present |-> TRUE, timestamp |-> now,
                  result |-> ChatResultOf(st.threadId, st)]]
    /\ UNCHANGED <<checkpoint, chatRequest, decision, now, wide, got, ticks,
                   other, turns, delegations, responded, thrown>>
    /\ UNCHANGED subVars
    /\ UNCHANGED pubsubVars
    /\ UNCHANGED saverVars
    /\ UNCHANGED <<supersteps, front>>

\* chat: the graph reached END and the result is cached, but publishing
\* `complete` throws: the catch block publishes `error` and rethrows
ChatReturnPublishFails ==
    /\ pc = "END"
    /\ resultCache' = CachePut(resultCache, st.threadId,
                               ChatResultOf(st.threadId, st), now)
    /\ chatResult' = [kind |-> "threw", value |-> NoChatResult]
    /\ thrown' = PublishError
    /\ published' = published
                    \o <<Event("complete", UNDEF, st.research_results,
                               st.calculation_results, UNDEF),
                         ErrorEvent(PublishError)>>
                    \o chatAsyncCatch(chatRequest, PublishError)
    /\ pc' = "idle"
    /\ st' = InitialState
    /\ puts' = [puts EXCEPT ![st.threadId] =
                 [present |-> TRUE, timestamp |-> now,
                  result |-> ChatResultOf(st.threadId, st)]]
    /\ UNCHANGED <<checkpoint, chatRequest, decision, now, wide, got, ticks,
                   other, turns, delegations, responded>>
    /\ UNCHANGED subVars
    /\ UNCHANGED pubsubVars
    /\ UNCHANGED saverVars
    /\ UNCHANGED <<supersteps, front>>

\* Mutant: the catch block caches the state the graph had reached
ChatCatch_CachesPartial ==
    /\ pc = "error"
    /\ published' = Append(published, ErrorEvent(thrown))
                    \o chatAsyncCatch(chatRequest, thrown)
    /\ chatResult' = [kind |-> "threw", value |-> NoChatResult]
    /\ resultCache' = CachePut(resultCache, st.threadId,
                               ChatResultOf(st.threadId, st), now)
    /\ pc' = "idle"
    /\ st' = InitialState
    /\ UNCHANGED <<checkpoint, chatRequest, decision, now, wide, puts, got,
                   ticks, other, turns, delegations, responded, thrown>>
    /\ UNCHANGED subVars
    /\ UNCHANGED pubsubVars
    /\ UNCHANGED saverVars
    /\ UNCHANGED <<supersteps, front>>

\* chat: an error left the graph; the catch block publishes `error` and
\* rethrows
ChatCatch ==
    /\ pc = "error"
    /\ published' = Append(published, ErrorEvent(thrown))
                    \o chatAsyncCatch(chatRequest, thrown)
    /\ chatResult' = [kind |-> "threw", value |-> NoChatResult]
    /\ pc' = "idle"
    /\ st' = InitialState
    /\ UNCHANGED <<checkpoint, chatRequest, decision, resultCache, now, wide,
                   puts, got, ticks, other, turns, delegations, responded,
                   thrown>>
    /\ UNCHANGED subVars
    /\ UNCHANGED pubsubVars
    /\ UNCHANGED saverVars
    /\ UNCHANGED <<supersteps, front>>

\* chat: an error left the graph and publishing `error` in the catch block
\* throws, so that chat rejects with the publish error instead
ChatCatchPublishFails ==
    /\ pc = "error"
    /\ published' = Append(published, ErrorEvent(thrown))
                    \o chatAsyncCatch(chatRequest, PublishError)
    /\ chatResult' = [kind |-> "threw", value |-> NoChatResult]
    /\ thrown' = PublishError
    /\ pc' = "idle"
    /\ st' = InitialState
    /\ UNCHANGED <<checkpoint, chatRequest, decision, resultCache, now, wide,
                   puts, got, ticks, other, turns, delegations, responded>>
    /\ UNCHANGED subVars
    /\ UNCHANGED pubsubVars
    /\ UNCHANGED saverVars
    /\ UNCHANGED <<supersteps, front>>

\* chatAsync: both initial publishes succeed and chat runs in the background
ChatAsyncStart(t, message, messages) ==
    /\ pc = "idle"
    /\ turns < MaxTurns
    /\ turns' = turns + 1
    /\ published' = <<Status("thinking"), Status("thinking")>>
    /\ st' = [checkpoint[t] EXCEPT !.input = inputState(message, messages),
                                   !.threadId = t]
    /\ checkpoint' = Save(st')
    /\ pc' = "format_input"
    /\ chatResult' = [kind |-> "running", value |-> NoChatResult]
    /\ chatRequest' = [threadId |-> t, message |-> message,
                       messages |-> messages, async |-> TRUE,
                       prior |-> checkpoint[t].messages]
    /\ decision' = NoDecision
    /\ thrown' = NoError
    /\ UNCHANGED <<resultCache, now, wide, puts, got, ticks, other,
                   delegations, responded>>
    /\ UNCHANGED subVars
    /\ UNCHANGED pubsubVars
    /\ UNCHANGED saverVars
    /\ supersteps' = 0
    /\ UNCHANGED front

\* chatAsync: its own initial publish throws, chatAsync rejects and chat is
\* never called
ChatAsyncPublishFails(t, message, messages) ==
    /\ pc = "idle"
    /\ turns < MaxTurns
    /\ turns' = turns + 1
    /\ published' = <<Status("thinking")>>
    /\ chatResult' = [kind |-> "none", value |-> NoChatResult]
    /\ chatRequest' = [threadId |-> t, message |-> message,
                       messages |-> messages, async |-> TRUE,
                       prior |-> checkpoint[t].messages]
    /\ decision' = NoDecision
    /\ thrown' = PublishError
    /\ UNCHANGED <<checkpoint, st, pc, resultCache, now, wide, puts, got,
                   ticks, other, delegations, responded>>
    /\ UNCHANGED subVars
    /\ UNCHANGED pubsubVars
    /\ UNCHANGED saverVars
    /\ UNCHANGED <<supersteps, front>>

\* chatAsync: chat's initial publish throws before the try block, chat
\* rejects and chatAsync's handler publishes `error`
ChatAsyncChatPublishFails(t, message, messages) ==
    /\ pc = "idle"
    /\ turns < MaxTurns
    /\ turns' = turns + 1
    /\ published' = <<Status("thinking"), Status("thinking"),
                      ErrorEvent(PublishError)>>
    /\ chatResult' = [kind |-> "threw", value |-> NoChatResult]
    /\ chatRequest' = [threadId |-> t, message |-> message,
                       messages |-> messages, async |-> TRUE,
                       prior |-> checkpoint[t].messages]
    /\ decision' = NoDecision
    /\ thrown' = PublishError
    /\ UNCHANGED <<checkpoint, st, pc, resultCache, now, wide, puts, got,
                   ticks, other, delegations, responded>>
    /\ UNCHANGED subVars
    /\ UNCHANGED pubsubVars
    /\ UNCHANGED saverVars
    /\ UNCHANGED <<supersteps, front>>

-----------------------------------------------------------------------------
(* Actions of the top-level graph *)

FormatInput ==
    /\ pc = "format_input"
    /\ st' = FormatInputUpdate(st)
    /\ checkpoint' = Save(st')
    /\ pc' = "think"
    /\ UNCHANGED <<published, chatRequest, decision, chatResult, thrown,
                   resultCache, now, wide, puts, got, ticks, other, turns,
                   delegations, responded>>
    /\ UNCHANGED subVars
    /\ UNCHANGED pubsubVars
    /\ UNCHANGED saverVars
    /\ supersteps' = supersteps + 1
    /\ UNCHANGED front

\* thinkNode with the Oracle answering d
ThinkStep(d) ==
    /\ pc = "think"
    /\ supersteps < RECURSION_LIMIT
    /\ delegations' = IF d.kind \in {"research_query", "calculation_request"}
                      THEN delegations + 1 ELSE delegations
    /\ published' = published \o <<Status("thinking"), ThinkEvent(d)>>
    /\ st' = ThinkUpdate(st, d)
    /\ checkpoint' = Save(st')
    /\ pc' = ThinkRoute(st')
    /\ responded' = IF d.kind = "response"
                    THEN [responded EXCEPT ![st.threadId] = @ + 1]
                    ELSE responded
    /\ decision' = d
    /\ UNCHANGED <<chatRequest, chatResult, thrown, resultCache, now, wide,
                   puts, got, ticks, other, turns>>
    /\ UNCHANGED subVars
    /\ UNCHANGED pubsubVars
    /\ UNCHANGED saverVars
    /\ supersteps' = supersteps + 1
    /\ UNCHANGED front

\* thinkNode, with the delegations explored kept within the bound
Think(d) ==
    /\ d.kind \in {"research_query", "calculation_request"}
           => delegations < MaxDelegations
    /\ ThinkStep(d)

\* Mutant: the limit is tested one superstep too late
GraphOutOfSteps_Late ==
    /\ pc \in {"think", "research", "calculate"}
    /\ wrNode = "none" /\ calcNode = "none"
    /\ supersteps > RECURSION_LIMIT
    /\ pc' = "error"
    /\ thrown' = RecursionError
    /\ UNCHANGED <<checkpoint, st, published, chatRequest, decision,
                   chatResult, resultCache, now, wide, puts, got, ticks,
                   other, turns, delegations, responded, supersteps, front>>
    /\ UNCHANGED subVars
    /\ UNCHANGED pubsubVars
    /\ UNCHANGED saverVars

\* The top-level graph needs another superstep after RECURSION_LIMIT of them:
\* invoke rejects with the recursion error
GraphOutOfSteps ==
    /\ pc \in {"think", "research", "calculate"}
    /\ wrNode = "none" /\ calcNode = "none"
    /\ supersteps >= RECURSION_LIMIT
    /\ pc' = "error"
    /\ thrown' = RecursionError
    /\ UNCHANGED <<checkpoint, st, published, chatRequest, decision,
                   chatResult, resultCache, now, wide, puts, got, ticks,
                   other, turns, delegations, responded, supersteps, front>>
    /\ UNCHANGED subVars
    /\ UNCHANGED pubsubVars
    /\ UNCHANGED saverVars

\* thinkNode with the Oracle call failing by throwing e
ThinkThrows(e) ==
    /\ pc = "think"
    /\ published' = Append(published, Status("thinking"))
    /\ pc' = "error"
    /\ thrown' = e
    /\ UNCHANGED <<checkpoint, st, chatRequest, decision, chatResult,
                   resultCache, now, wide, puts, got, ticks, other, turns,
                   delegations, responded>>
    /\ UNCHANGED subVars
    /\ UNCHANGED pubsubVars
    /\ UNCHANGED saverVars
    /\ UNCHANGED <<supersteps, front>>

\* Mutant: the skipped delegation still announces a search
ResearchNodeSkip_Publishes ==
    /\ pc = "research" /\ wrNode = "none"
    /\ supersteps < RECURSION_LIMIT
    /\ ~Truthy(st.pending_research_query)
    /\ st' = [st EXCEPT !.current_action = "thinking"]
    /\ checkpoint' = Save(st')
    /\ pc' = "think"
    /\ published' = Append(published, Status("researching"))
    /\ UNCHANGED <<chatRequest, decision, chatResult, thrown,
                   resultCache, now, wide, puts, got, ticks, other, turns,
                   delegations, responded>>
    /\ UNCHANGED subVars
    /\ UNCHANGED pubsubVars
    /\ UNCHANGED saverVars
    /\ supersteps' = supersteps + 1
    /\ UNCHANGED front

\* researchNode without a pending query
ResearchNodeSkip ==
    /\ pc = "research" /\ wrNode = "none"
    /\ supersteps < RECURSION_LIMIT
    /\ ~Truthy(st.pending_research_query)
    /\ st' = [st EXCEPT !.current_action = "thinking"]
    /\ checkpoint' = Save(st')
    /\ pc' = "think"
    /\ UNCHANGED <<published, chatRequest, decision, chatResult, thrown,
                   resultCache, now, wide, puts, got, ticks, other, turns,
                   delegations, responded>>
    /\ UNCHANGED subVars
    /\ UNCHANGED pubsubVars
    /\ UNCHANGED saverVars
    /\ supersteps' = supersteps + 1
    /\ UNCHANGED front

\* researchNode up to webResearcherGraph.invoke
ResearchNodeEnter(dt) ==
    /\ pc = "research" /\ wrNode = "none"
    /\ supersteps < RECURSION_LIMIT
    /\ Truthy(st.pending_research_query)
    /\ dt = 0 => clockRepeats
    /\ published' = Append(published, Status("researching"))
    /\ now' = now + dt
    /\ thread_id' = RunId(st.turnCount, now')
    /\ wr' = ResearchResume(researchSaver, thread_id',
                            st.pending_research_query)
    /\ researchSaver' = Put(researchSaver, thread_id', wr')
    /\ wrNode' = "analyze"
    /\ steps' = 0
    /\ calls' = NoCalls
    /\ UNCHANGED <<checkpoint, st, pc, chatRequest, decision, chatResult,
                   thrown, resultCache, wide, puts, got, ticks, other,
                   turns, delegations, responded, calc, calcNode, pubsubVars,
                   calculatorSaver, clockRepeats, supersteps, front>>

\* researchNode from the return of webResearcherGraph.invoke
ResearchNodeReturn ==
    /\ pc = "research" /\ wrNode = "END"
    /\ published' = Append(published,
                           Event("researching", UNDEF,
                                 Substring0(finalResearchResults(wr), PREVIEW_LIMIT),
                                 UNDEF, UNDEF))
    /\ st' = ResearchNodeUpdate(st, wr)
    /\ checkpoint' = Save(st')
    /\ pc' = "think"
    /\ wr' = NoResearchRun
    /\ wrNode' = "none"
    /\ steps' = 0
    /\ calls' = NoCalls
    /\ UNCHANGED <<chatRequest, decision, chatResult, thrown, resultCache,
                   now, wide, puts, got, ticks, other, turns, delegations,
                   responded, calc, calcNode>>
    /\ UNCHANGED pubsubVars
    /\ researchSaver' = Live(Put(researchSaver, thread_id, wr))
    /\ thread_id' = NoRunId
    /\ supersteps' = supersteps + 1
    /\ UNCHANGED <<calculatorSaver, clockRepeats, front>>

\* calculateNode without a pending request
CalculateNodeSkip ==
    /\ pc = "calculate" /\ calcNode = "none"
    /\ supersteps < RECURSION_LIMIT
    /\ ~Truthy(st.pending_calculation_request)
    /\ st' = [st EXCEPT !.current_action = "thinking"]
    /\ checkpoint' = Save(st')
    /\ pc' = "think"
    /\ UNCHANGED <<published, chatRequest, decision, chatResult, thrown,
                   resultCache, now, wide, puts, got, ticks, other, turns,
                   delegations, responded>>
    /\ UNCHANGED subVars
    /\ UNCHANGED pubsubVars
    /\ UNCHANGED saverVars
    /\ supersteps' = supersteps + 1
    /\ UNCHANGED front

\* calculateNode up to calculatorGraph.invoke
CalculateNodeEnter(dt) ==
    /\ pc = "calculate" /\ calcNode = "none"
    /\ supersteps < RECURSION_LIMIT
    /\ Truthy(st.pending_calculation_request)
    /\ dt = 0 => clockRepeats
    /\ published' = Append(published, Status("calculating"))
    /\ now' = now + dt
    /\ thread_id' = RunId(st.turnCount, now')
    /\ calc' = CalculatorResume(calculatorSaver, thread_id',
                                st.pending_calculation_request)
    /\ calculatorSaver' = Put(calculatorSaver, thread_id', calc')
    /\ calcNode' = "analyze"
    /\ steps' = 0
    /\ calls' = NoCalls
    /\ UNCHANGED <<checkpoint, st, pc, chatRequest, decision, chatResult,
                   thrown, resultCache, wide, puts, got, ticks, other,
                   turns, delegations, responded, wr, wrNode, pubsubVars,
                   researchSaver, clockRepeats, supersteps, front>>

\* calculateNode from the return of calculatorGraph.invoke
CalculateNodeReturn ==
    /\ pc = "calculate" /\ calcNode = "END"
    /\ published' = Append(published,
                           Event("calculating", UNDEF, UNDEF,
                                 Substring0(finalCalculationResult(calc), PREVIEW_LIMIT),
                                 UNDEF))
    /\ st' = CalculateNodeUpdate(st, calc)
    /\ checkpoint' = Save(st')
    /\ pc' = "think"
    /\ calc' = NoCalculatorRun
    /\ calcNode' = "none"
    /\ steps' = 0
    /\ calls' = NoCalls
    /\ UNCHANGED <<chatRequest, decision, chatResult, thrown, resultCache,
                   now, wide, puts, got, ticks, other, turns, delegations,
                   responded, wr, wrNode>>
    /\ UNCHANGED pubsubVars
    /\ calculatorSaver' = Live(Put(calculatorSaver, thread_id, calc))
    /\ thread_id' = NoRunId
    /\ supersteps' = supersteps + 1
    /\ UNCHANGED <<researchSaver, clockRepeats, front>>

-----------------------------------------------------------------------------
(* Actions of the web researcher graph *)

researchOthers == <<checkpoint, st, published, chatRequest, decision,
                    chatResult, resultCache, now, wide, puts, got, ticks, other, turns,
                    delegations, responded, calc, calcNode, pubsubVars,
                    saverVars, supersteps, front>>

\* analyzeNode with the Oracle answering d, then the conditional edge
ResearchAnalyze(d) ==
    /\ pc = "research" /\ wrNode = "analyze"
    /\ steps < RECURSION_LIMIT
    /\ (d.kind = "search_query" /\ ~wide) => wr.iteration_count < MaxSubIterations
    /\ wr' = ResearchAnalyzeUpdate(wr, d)
    /\ wrNode' = ResearchRoute(wr')
    /\ steps' = steps + 1
    /\ calls' = [calls EXCEPT !.asked = d.kind, !.text = d.text]
    /\ UNCHANGED <<pc, thrown>>
    /\ UNCHANGED researchOthers

\* searchNode, the search succeeding when there is a query to search for
ResearchSearch ==
    /\ pc = "research" /\ wrNode = "search"
    /\ steps < RECURSION_LIMIT
    /\ wr' = ResearchSearchUpdate(wr)
    /\ wrNode' = "analyze"
    /\ steps' = steps + 1
    /\ calls' = IF Truthy(wr.pending_search_query)
                THEN [calls EXCEPT !.search = @ + 1] ELSE calls
    /\ UNCHANGED <<pc, thrown>>
    /\ UNCHANGED researchOthers

\* The research run ends by an error, which leaves researchNode and the
\* top-level graph
ResearchAbort(e) ==
    /\ pc' = "error"
    /\ thrown' = e
    /\ wr' = NoResearchRun
    /\ wrNode' = "none"
    /\ steps' = 0
    /\ calls' = NoCalls
    /\ researchSaver' = Live(Put(researchSaver, thread_id, wr))
    /\ thread_id' = NoRunId
    /\ UNCHANGED <<checkpoint, st, published, chatRequest, decision,
                   chatResult, resultCache, now, wide, puts, got, ticks,
                   other, turns, delegations, responded, calc, calcNode,
                   pubsubVars, calculatorSaver, clockRepeats, supersteps,
                   front>>

\* analyzeNode with the Oracle call failing
ResearchAnalyzeThrows ==
    /\ pc = "research" /\ wrNode = "analyze"
    /\ steps < RECURSION_LIMIT
    /\ ResearchAbort(OracleError)

\* searchNode with tavilySearch throwing
ResearchSearchThrows ==
    /\ pc = "research" /\ wrNode = "search"
    /\ steps < RECURSION_LIMIT
    /\ Truthy(wr.pending_search_query)
    /\ ResearchAbort(SearchError)

\* The run needs another superstep after RECURSION_LIMIT of them
ResearchOutOfSteps ==
    /\ pc = "research" /\ wrNode \in {"analyze", "search"}
    /\ steps >= RECURSION_LIMIT
    /\ ResearchAbort(RecursionError)

-----------------------------------------------------------------------------
(* Actions of the calculator graph *)

calculatorOthers == <<checkpoint, st, published, chatRequest, decision,
                      chatResult, resultCache, now, wide, puts, got, ticks, other, turns,
                      delegations, responded, wr, wrNode, pubsubVars,
                      saverVars, supersteps, front>>

\* analyzeNode with the Oracle answering d, then the conditional edge
CalculatorAnalyze(d) ==
    /\ pc = "calculate" /\ calcNode = "analyze"
    /\ steps < RECURSION_LIMIT
    /\ (d.kind = "python_code" /\ ~wide) => calc.iteration_count < MaxSubIterations
    /\ calc' = CalculatorAnalyzeUpdate(calc, d)
    /\ calcNode' = CalculatorRoute(calc')
    /\ steps' = steps + 1
    /\ calls' = [calls EXCEPT !.asked = d.kind, !.text = d.text]
    /\ UNCHANGED <<pc, thrown>>
    /\ UNCHANGED calculatorOthers

\* executeNode with the interpreter ending in outcome o
CalculatorExecute(o) ==
    /\ pc = "calculate" /\ calcNode = "execute"
    /\ steps < RECURSION_LIMIT
    /\ calc' = CalculatorExecuteUpdate(calc, pythonExecutor(calc.pending_python_code, o))
    /\ calcNode' = "analyze"
    /\ steps' = steps + 1
    /\ calls' = IF Truthy(calc.pending_python_code)
                THEN [calls EXCEPT !.exec = @ + 1,
                                   !.lastExec = IF o.ok THEN "ok" ELSE "error"]
                ELSE [calls EXCEPT !.lastExec = "none"]
    /\ UNCHANGED <<pc, thrown>>
    /\ UNCHANGED calculatorOthers

\* The calculator run ends by an error, which leaves calculateNode and the
\* top-level graph
CalculatorAbort(e) ==
    /\ pc' = "error"
    /\ thrown' = e
    /\ calc' = NoCalculatorRun
    /\ calcNode' = "none"
    /\ steps' = 0
    /\ calls' = NoCalls
    /\ calculatorSaver' = Live(Put(calculatorSaver, thread_id, calc))
    /\ thread_id' = NoRunId
    /\ UNCHANGED <<checkpoint, st, published, chatRequest, decision,
                   chatResult, resultCache, now, wide, puts, got, ticks,
                   other, turns, delegations, responded, wr, wrNode,
                   pubsubVars, researchSaver, clockRepeats, supersteps,
                   front>>

\* analyzeNode with the Oracle call failing
CalculatorAnalyzeThrows ==
    /\ pc = "calculate" /\ calcNode = "analyze"
    /\ steps < RECURSION_LIMIT
    /\ CalculatorAbort(OracleError)

\* The run needs another superstep after RECURSION_LIMIT of them
CalculatorOutOfSteps ==
    /\ pc = "calculate" /\ calcNode \in {"analyze", "execute"}
    /\ steps >= RECURSION_LIMIT
    /\ CalculatorAbort(RecursionError)

-----------------------------------------------------------------------------
(* Specifications *)

ResearchRun ==
    \/ \E d \in ResearchDecisions : ResearchAnalyze(d)
    \/ ResearchSearch
    \/ ResearchAnalyzeThrows
    \/ ResearchSearchThrows

CalculatorRun ==
    \/ \E d \in CalculatorDecisions : CalculatorAnalyze(d)
    \/ \E o \in ToolOutcomes : CalculatorExecute(o)
    \/ CalculatorAnalyzeThrows

InitChat ==
    /\ checkpoint = [t \in ThreadIds |-> InitialState]
    /\ st = InitialState
    /\ pc = "idle"
    /\ wr = NoResearchRun
    /\ wrNode = "none"
    /\ calc = NoCalculatorRun
    /\ calcNode = "none"
    /\ steps = 0
    /\ calls = NoCalls
    /\ published = <<>>
    /\ chatRequest = NoRequest
    /\ decision = NoDecision
    /\ chatResult = [kind |-> "none", value |-> NoChatResult]
    /\ resultCache = [t \in ThreadIds |-> NoEntry]
    /\ now = 0
    /\ wide = FALSE
    /\ other = NoOther
    /\ got = NoResult
    /\ ticks = 0
    /\ puts = [t \in ThreadIds |-> NoEntry]
    /\ thrown = NoError
    /\ InitPubSub
    /\ InitSavers
    /\ front = InitFront
    /\ supersteps = 0
    /\ turns = 0
    /\ delegations = 0
    /\ responded = [t \in ThreadIds |-> 0]

\* The service after construction, on a clock whose readings never repeat
\* between two delegations
Init == InitChat /\ clockRepeats = FALSE

\* The same, on a wall clock that can return a reading again (it is not
\* monotonic, and two delegations can fall in one millisecond)
InitClock == InitChat /\ clockRepeats = TRUE

Next ==
    \/ \E t \in ChatThreads, m \in UserTexts, h \in Histories : ChatStart(t, m, h)
    \/ \E t \in ChatThreads, m \in UserTexts, h \in Histories :
           ChatStartPublishFails(t, m, h)
    \/ FormatInput
    \/ \E d \in TopDecisions : Think(d)
    \/ ThinkThrows(OracleError)
    \/ ResearchNodeSkip
    \/ \E dt \in ClockSteps : ResearchNodeEnter(dt)
    \/ ResearchRun
    \/ ResearchNodeReturn
    \/ CalculateNodeSkip
    \/ \E dt \in ClockSteps : CalculateNodeEnter(dt)
    \/ CalculatorRun
    \/ CalculateNodeReturn
    \/ ChatReturn
    \/ ChatReturnPublishFails
    \/ ChatCatch

Spec == Init /\ [][Next]_vars

SpecClock == InitClock /\ [][Next]_vars

\* One subagent run with unrestricted Oracle and tools, from the state in
\* which the first THINK of a new thread has just delegated
Delegated(d) ==
    ThinkUpdate(FormatInputUpdate(
                    [InitialState EXCEPT !.input = inputState(<<"hello">>, <<>>),
                                         !.threadId = "t1"]), d)

InitRuns ==
    /\ \E d \in {x \in TopDecisions :
                     /\ x.kind \in {"research_query", "calculation_request"}
                     /\ Truthy(x.text) /\ ~x.hasPlan} :
          /\ st = Delegated(d)
          /\ published = <<Status("thinking"), Status("thinking"), ThinkEvent(d)>>
          /\ decision = d
    /\ chatRequest = [threadId |-> "t1", message |-> <<"hello">>,
                      messages |-> <<>>, async |-> FALSE, prior |-> <<>>]
    /\ checkpoint = [t \in ThreadIds |-> IF t = "t1" THEN st ELSE InitialState]
    /\ pc = ThinkRoute(st)
    /\ wr = NoResearchRun
    /\ wrNode = "none"
    /\ calc = NoCalculatorRun
    /\ calcNode = "none"
    /\ steps = 0
    /\ calls = NoCalls
    /\ chatResult = [kind |-> "running", value |-> NoChatResult]
    /\ resultCache = [t \in ThreadIds |-> NoEntry]
    /\ now = 0
    /\ wide = TRUE
    /\ other = NoOther
    /\ got = NoResult
    /\ ticks = 0
    /\ puts = [t \in ThreadIds |-> NoEntry]
    /\ thrown = NoError
    /\ InitPubSub
    /\ InitSavers
    /\ clockRepeats = FALSE
    /\ front = InitFront
    /\ supersteps = 2
    /\ turns = 1
    /\ delegations = 1
    /\ responded = [t \in ThreadIds |-> 0]

NextRuns ==
    \/ \E dt \in ClockSteps : ResearchNodeEnter(dt)
    \/ ResearchRun
    \/ ResearchOutOfSteps
    \/ ResearchNodeReturn
    \/ \E dt \in ClockSteps : CalculateNodeEnter(dt)
    \/ CalculatorRun
    \/ CalculatorOutOfSteps
    \/ CalculateNodeReturn

SpecRuns == InitRuns /\ [][NextRuns]_vars

\* An invoked graph keeps running: every Oracle or tool call it awaits
\* returns or throws
SpecRunsFair == SpecRuns /\ WF_vars(NextRuns)

-----------------------------------------------------------------------------
(* A second chat call on the thread of the call in flight.  The service
   starts every call at once (chatAsync does not await chat, and chat awaits
   the graph), so calls on one thread overlap; each graph invocation reads
   the thread's checkpoint when it starts, keeps its own channel values, and
   saves them after each node.  The second call is answered at its first
   THINK, by a question or a response. *)

OtherChatStart(message, messages) ==
    /\ pc \in {"format_input", "think", "research", "calculate"}
    /\ other.pc = "idle"
    /\ turns < MaxTurns
    /\ turns' = turns + 1
    /\ published' = Append(published, Status("thinking"))
    /\ other' = [pc |-> "format_input",
                 st |-> [checkpoint[st.threadId] EXCEPT
                             !.input = inputState(message, messages),
                             !.threadId = st.threadId]]
    /\ checkpoint' = Save(other'.st)
    /\ UNCHANGED <<st, pc, chatRequest, decision, chatResult, thrown,
                   resultCache, now, wide, puts, got, ticks, delegations,
                   responded>>
    /\ UNCHANGED subVars
    /\ UNCHANGED pubsubVars
    /\ UNCHANGED saverVars
    /\ UNCHANGED <<supersteps, front>>

OtherFormatInput ==
    /\ other.pc = "format_input"
    /\ other' = [pc |-> "think", st |-> FormatInputUpdate(other.st)]
    /\ checkpoint' = Save(other'.st)
    /\ UNCHANGED <<st, pc, published, chatRequest, decision, chatResult,
                   thrown, resultCache, now, wide, puts, got, ticks, turns,
                   delegations, responded>>
    /\ UNCHANGED subVars
    /\ UNCHANGED pubsubVars
    /\ UNCHANGED saverVars
    /\ UNCHANGED <<supersteps, front>>

OtherThink(d) ==
    /\ other.pc = "think"
    /\ d.kind \in {"question", "response"}
    /\ published' = published \o <<Status("thinking"), ThinkEvent(d)>>
    /\ other' = [pc |-> ThinkRoute(ThinkUpdate(other.st, d)),
                 st |-> ThinkUpdate(other.st, d)]
    /\ checkpoint' = Save(other'.st)
    /\ responded' = IF d.kind = "response"
                    THEN [responded EXCEPT ![other.st.threadId] = @ + 1]
                    ELSE responded
    /\ UNCHANGED <<st, pc, chatRequest, decision, chatResult, thrown,
                   resultCache, now, wide, puts, got, ticks, turns,
                   delegations>>
    /\ UNCHANGED subVars
    /\ UNCHANGED pubsubVars
    /\ UNCHANGED saverVars
    /\ UNCHANGED <<supersteps, front>>

OtherChatReturn ==
    /\ other.pc = "END"
    /\ resultCache' = CachePut(resultCache, other.st.threadId,
                               ChatResultOf(other.st.threadId, other.st), now)
    /\ published' = Append(published,
                           Event("complete", UNDEF, other.st.research_results,
                                 other.st.calculation_results, UNDEF))
    /\ other' = NoOther
    /\ puts' = [puts EXCEPT ![other.st.threadId] =
                 [present |-> TRUE, timestamp |-> now,
                  result |-> ChatResultOf(other.st.threadId, other.st)]]
    /\ UNCHANGED <<checkpoint, st, pc, chatRequest, decision, chatResult,
                   thrown, now, wide, got, ticks, turns, delegations,
                   responded>>
    /\ UNCHANGED subVars
    /\ UNCHANGED pubsubVars
    /\ UNCHANGED saverVars
    /\ UNCHANGED <<supersteps, front>>

NextOverlap ==
    \/ Next
    \/ \E m \in UserTexts : OtherChatStart(m, <<>>)
    \/ OtherFormatInput
    \/ \E d \in TopDecisions : OtherThink(d)
    \/ OtherChatReturn

SpecOverlap == Init /\ [][NextOverlap]_vars

-----------------------------------------------------------------------------
(* The result cache under a moving clock: chat calls on either thread that
   the Oracle answers at the first THINK, reads by getAsyncResult at any
   moment, and time passing *)

\* Milliseconds by which the clock advances in one step
TickSteps == {1, CACHE_TTL - 1}

Tick(dt) ==
    /\ ticks < MaxTicks
    /\ ticks' = ticks + 1
    /\ now' = now + dt
    /\ UNCHANGED <<checkpoint, st, pc, published, chatRequest, decision,
                   chatResult, thrown, resultCache, wide, puts, turns,
                   delegations, responded, other, got>>
    /\ UNCHANGED subVars
    /\ UNCHANGED pubsubVars
    /\ UNCHANGED saverVars
    /\ UNCHANGED <<supersteps, front>>

\* Mutant: an entry is still served when exactly CACHE_TTL old
cacheValid_Inclusive(cached, time) ==
    cached.present /\ time - cached.timestamp <= CACHE_TTL

\* getAsyncResult: the test that an entry exists and has not expired
cacheValid(cached, time) ==
    cached.present /\ time - cached.timestamp < CACHE_TTL

\* getAsyncResult(t)
GetAsyncResult(t) ==
    /\ LET cached == resultCache[t] IN
       IF cacheValid(cached, now)
       THEN /\ got' = [threadId |-> t, found |-> TRUE, result |-> cached.result]
            /\ UNCHANGED resultCache
       ELSE /\ got' = [threadId |-> t, found |-> FALSE, result |-> NoChatResult]
            /\ resultCache' = [resultCache EXCEPT ![t] = NoEntry]
    /\ UNCHANGED <<checkpoint, st, pc, published, chatRequest, decision,
                   chatResult, thrown, now, wide, puts, turns, delegations,
                   responded, other, ticks>>
    /\ UNCHANGED subVars
    /\ UNCHANGED pubsubVars
    /\ UNCHANGED saverVars
    /\ UNCHANGED <<supersteps, front>>

NextCache ==
    \/ \E t \in ThreadIds, m \in UserTexts : ChatStart(t, m, <<>>)
    \/ FormatInput
    \/ \E d \in {x \in TopDecisions : x.kind \in {"question", "response"}} : Think(d)
    \/ ThinkThrows(OracleError)
    \/ ChatReturn
    \/ ChatCatch
    \/ \E dt \in TickSteps : Tick(dt)
    \/ \E t \in ThreadIds : GetAsyncResult(t)

SpecCache == Init /\ [][NextCache]_vars

-----------------------------------------------------------------------------
(* Failures: chat and chatAsync requests on one thread whose Oracle, search
   or status publishes can throw any of the modelled errors *)

ErrorDecisions ==
    {d \in TopDecisions : d.kind \in {"question", "response", "research_query"}}

NextErrors ==
    \/ \E m \in UserTexts : ChatStart("t1", m, <<>>)
    \/ \E m \in UserTexts : ChatStartPublishFails("t1", m, <<>>)
    \/ \E m \in UserTexts : ChatAsyncStart("t1", m, <<>>)
    \/ \E m \in UserTexts : ChatAsyncPublishFails("t1", m, <<>>)
    \/ \E m \in UserTexts : ChatAsyncChatPublishFails("t1", m, <<>>)
    \/ FormatInput
    \/ \E d \in ErrorDecisions : Think(d)
    \/ \E e \in OracleErrors : ThinkThrows(e)
    \/ ResearchNodeSkip
    \/ \E dt \in ClockSteps : ResearchNodeEnter(dt)
    \/ ResearchRun
    \/ ResearchNodeReturn
    \/ ChatReturn
    \/ ChatReturnPublishFails
    \/ ChatCatch
    \/ ChatCatchPublishFails

SpecErrors == Init /\ [][NextErrors]_vars

-----------------------------------------------------------------------------
(* Tool infrastructure failures: the chat calls of Spec with an interpreter
   that can also fail to load *)

NextTools ==
    \/ Next
    \/ CalculatorExecute(SandboxUnavailable)

SpecTools == Init /\ [][NextTools]_vars

-----------------------------------------------------------------------------
(* Turns with research whose summary can be longer than the preview *)

\* A research summary of PREVIEW_LIMIT + 1 characters
LongSummary == [i \in 1..(PREVIEW_LIMIT + 1) |-> "x"]

RoundDecisions ==
    {d \in TopDecisions : d.kind \in {"research_query", "response"}}

RoundResearchDecisions ==
    ResearchDecisions
    \cup {[kind |-> "research_summary", text |-> LongSummary,
           query |-> UNDEF, hasPlan |-> FALSE, plan |-> UNDEF]}

NextRound ==
    \/ \E m \in UserTexts : ChatStart("t1", m, <<>>)
    \/ FormatInput
    \/ \E d \in RoundDecisions : Think(d)
    \/ ResearchNodeSkip
    \/ \E dt \in ClockSteps : ResearchNodeEnter(dt)
    \/ \E d \in RoundResearchDecisions : ResearchAnalyze(d)
    \/ ResearchSearch
    \/ ResearchNodeReturn
    \/ ChatReturn

SpecRound == Init /\ [][NextRound]_vars

\* An Oracle that never responds or asks at THINK and alternates between
\* research and calculation; each subagent run ends at its first ANALYZE
LoopDecisions ==
    {d \in TopDecisions :
        /\ d.kind \in {"research_query", "calculation_request"}
        /\ decision.kind = "research_query" => d.kind = "calculation_request"
        /\ decision.kind = "calculation_request" => d.kind = "research_query"
        /\ Truthy(d.text) /\ ~d.hasPlan}

NextLoop ==
    \/ \E m \in UserTexts : ChatStart("t1", m, <<>>)
    \/ FormatInput
    \/ \E d \in LoopDecisions : ThinkStep(d)
    \/ ResearchNodeEnter(1)
    \/ \E d \in {x \in ResearchDecisions : x.kind = "research_summary"} :
           ResearchAnalyze(d)
    \/ ResearchNodeReturn
    \/ CalculateNodeEnter(1)
    \/ \E d \in {x \in CalculatorDecisions : x.kind = "calculation_result"} :
           CalculatorAnalyze(d)
    \/ CalculateNodeReturn
    \/ GraphOutOfSteps
    \/ ChatCatch

SpecLoop == Init /\ [][NextLoop]_vars

\* The turn in flight keeps running: every awaited call returns
SpecLoopFair == SpecLoop /\ WF_vars(NextLoop)

\* The gateway and the Redis service alone, no chat call in flight
SpecPubSub == Init /\ [][NextPubSub]_vars

\* The gateway handling subscribe messages that overlap at their awaits
SpecSubscribe == Init /\ [][NextSubscribe]_vars

-----------------------------------------------------------------------------
(* Properties of the subagent runs *)

\* text ends with block
EndsWith(text, block) ==
    /\ Len(text) >= Len(block)
    /\ SubSeq(text, Len(text) - Len(block) + 1, Len(text)) = block

\* A run's iteration_count never decreases from one step to the next
IterationCountNeverDecreases ==
    [][/\ (wrNode # "none" /\ wrNode' # "none")
           => wr'.iteration_count >= wr.iteration_count
       /\ (calcNode # "none" /\ calcNode' # "none")
           => calc'.iteration_count >= calc.iteration_count]_vars

\* C1: in every state of a research run and of a calculator run, the terminal
\* state included, iteration_count is at most the hard maximum 10.
C1_IterationCountAtMostMax ==
    /\ wr.iteration_count <= MAX_RESEARCH_ITERATIONS
    /\ calc.iteration_count <= MAX_CALCULATOR_ITERATIONS

\* The summary forced completion synthesizes from the blocks gathered in n
\* iterations
SynthesizedSummary(blocks, n) ==
    <<"Research Summary (after ", Num(n), " iterations):">> \o NN \o Join(blocks, NN)

C2_Safety ==
    /\ calls.search <= MAX_RESEARCH_ITERATIONS
    /\ wrNode = "search" => wr.iteration_count < MAX_RESEARCH_ITERATIONS
    /\ (wrNode = "END" /\ calls.asked = "search_query") =>
          /\ wr.complete
          /\ calls.search = MAX_RESEARCH_ITERATIONS
          /\ Len(wr.research_results) = MAX_RESEARCH_ITERATIONS + 1
          /\ Last(wr.research_results) =
                 SynthesizedSummary(SubSeq(wr.research_results, 1,
                                           MAX_RESEARCH_ITERATIONS),
                                    MAX_RESEARCH_ITERATIONS)

C2_Terminates ==
    (wrNode \in {"analyze", "search"}) ~> (wrNode \in {"END", "none"})

C3_ResultNonEmptyEndsWithSummary ==
    wrNode = "END" =>
        /\ Len(wr.research_results) >= 1
        /\ wr.complete
        /\ calls.asked = "research_summary"
               => Last(wr.research_results) = calls.text
        /\ calls.asked = "search_query"
               => Last(wr.research_results) =
                      SynthesizedSummary(
                          SubSeq(wr.research_results, 1, Len(wr.research_results) - 1),
                          wr.iteration_count - 1)

C3_Witness ==
    /\ wrNode = "END" /\ wr.complete
    /\ calls.asked = "research_summary"
    /\ Len(wr.research_results) >= 3

C4_Terminates ==
    (calcNode \in {"analyze", "execute"}) ~> (calcNode \in {"END", "none"})

C4_Safety ==
    /\ calls.exec <= MAX_CALCULATOR_ITERATIONS
    /\ calcNode = "END" =>
          /\ calls.asked = "calculation_result"
                 => calc.python_code_response = calls.text
          /\ calls.asked = "python_code"
                 => /\ calls.exec = MAX_CALCULATOR_ITERATIONS
                    /\ calc.python_code_response =
                           <<"Calculation Result (after ",
                             Num(MAX_CALCULATOR_ITERATIONS), " iterations):">>
                           \o NN \o Last(calc.all_execution_results)

C5_ExecutionErrorFedBack ==
    (calcNode = "analyze" /\ calls.lastExec = "error") =>
        /\ pc = "calculate"
        /\ ~calc.complete
        /\ Len(calc.all_execution_results) = calls.exec
        /\ Last(calc.all_execution_results) = <<"Execution error: ", "boom">>
        /\ EndsWith(allResults(calc), <<"Execution error: ", "boom">>)
        /\ calc.iteration_count = calls.exec
        /\ calc.pending_python_code = UNDEF

C5_Witness ==
    /\ calcNode = "analyze" /\ calls.lastExec = "error"
    /\ calls.exec = MAX_CALCULATOR_ITERATIONS

-----------------------------------------------------------------------------
(* Properties of the conversation thread *)

IsPrefix(a, b) == Len(a) <= Len(b) /\ SubSeq(b, 1, Len(a)) = a

\* The step is a THINK that ends the turn, by a question or a response
TerminalDecision == pc = "think" /\ decision'.kind \in {"question", "response"}

C7_PendingNeverBothSet ==
    \A t \in ThreadIds :
        ~(/\ Truthy(checkpoint[t].pending_research_query)
          /\ Truthy(checkpoint[t].pending_calculation_request))

C8_RespondStep ==
    (pc = "think" /\ decision'.kind = "response") =>
        /\ Len(published') = Len(published) + 2
        /\ Last(published') = Status("responding")
        /\ st'.messages = Append(st.messages, [role |-> "assistant",
                                               message |-> decision'.text])
        /\ st'.current_action = "responding"
        /\ st'.turnCount = st.turnCount + 1
        /\ st'.planning_steps = UNDEF
        /\ st'.accumulated_research_results = <<>>
        /\ st'.accumulated_calculation_results = <<>>
        /\ checkpoint'[st.threadId] = st'
        /\ pc' = "END"

\* The first chat call, on a new thread and without a history, was answered
\* at its first THINK
AnsweredDirectly ==
    /\ turns = 1 /\ delegations = 0
    /\ chatRequest.messages = <<>>
    /\ decision.kind = "response"
    /\ chatResult.kind = "ok"

C8_DirectAnswer ==
    AnsweredDirectly =>
        /\ chatResult.value.turnCount = 1
        /\ chatResult.value.currentAction = "responding"
        /\ chatResult.value.messages =
               <<[role |-> "user", message |-> chatRequest.message],
                 [role |-> "assistant", message |-> decision.text]>>
        /\ checkpoint[chatRequest.threadId].accumulated_research_results = <<>>
        /\ checkpoint[chatRequest.threadId].accumulated_calculation_results = <<>>

\* C8: a THINK step that decides to respond publishes `responding`, appends
\* one assistant message with the response text, sets current_action to
\* responding, adds one to turnCount, clears planning_steps and both
\* accumulated sequences and goes to END; and a new thread whose one message
\* is answered at the first THINK yields turnCount 1, the user message
\* followed by the assistant message, and empty accumulated sequences.
C8_RespondEndsTurn == [][C8_RespondStep]_vars /\ []C8_DirectAnswer

C8_Witness == AnsweredDirectly

\* C9: whenever no chat call is in flight, each thread's turnCount is the
\* number of chat calls on it whose THINK decided to respond.
C9_TurnCountCountsResponses ==
    (pc = "idle" /\ other.pc = "idle") =>
        \A t \in ThreadIds : checkpoint[t].turnCount = responded[t]

\* C10: a THINK step that decides to ask publishes `asking`, appends one
\* assistant message with the question, clears both accumulated sequences,
\* sets current_action to asking and goes to END, and leaves turnCount and
\* planning_steps as they were.
C10_AskEndsTurn ==
    [][(pc = "think" /\ decision'.kind = "question") =>
          /\ Len(published') = Len(published) + 2
          /\ Last(published') = Status("asking")
          /\ st'.messages = Append(st.messages, [role |-> "assistant",
                                                 message |-> decision'.text])
          /\ st'.current_action = "asking"
          /\ st'.accumulated_research_results = <<>>
          /\ st'.accumulated_calculation_results = <<>>
          /\ st'.turnCount = st.turnCount
          /\ st'.planning_steps = st.planning_steps
          /\ checkpoint'[st.threadId] = st'
          /\ pc' = "END"]_vars

C10_Witness ==
    /\ pc = "END"
    /\ st.current_action = "asking"
    /\ Truthy(st.planning_steps)
    /\ st.turnCount = 1

\* C11: at the first THINK of a chat call that supplied a message sequence,
\* the message history is exactly the supplied sequence, whatever history
\* the thread had checkpointed.
C11_SuppliedHistoryOverwrites ==
    (pc = "think" /\ decision.kind = "none" /\ Len(chatRequest.messages) > 0)
        => st.messages = chatRequest.messages

C12_ContinuingChat ==
    (pc = "idle" /\ chatResult.kind = "ok" /\ Len(chatRequest.messages) = 0) =>
        chatResult.value.messages =
            chatRequest.prior
            \o <<[role |-> "user", message |-> chatRequest.message],
                 [role |-> "assistant", message |-> decision.text]>>

RECURSIVE ReturnedResearch(_)
ReturnedResearch(events) ==
    IF events = <<>> THEN <<>>
    ELSE LET e == Head(events) IN
         (IF e.status = "researching" /\ e.researchResults # UNDEF
          THEN <<e.researchResults>> ELSE <<>>)
         \o ReturnedResearch(Tail(events))

RECURSIVE ReturnedCalculations(_)
ReturnedCalculations(events) ==
    IF events = <<>> THEN <<>>
    ELSE LET e == Head(events) IN
         (IF e.status = "calculating" /\ e.calculationResults # UNDEF
          THEN <<e.calculationResults>> ELSE <<>>)
         \o ReturnedCalculations(Tail(events))

JoinedOrAbsent(results) ==
    IF results = <<>> THEN UNDEF ELSE Join(results, RES_SEP)

\* C13: at each THINK step the research text, and the calculation text, given
\* to the Oracle is the results the turn's delegations of that kind returned,
\* each once and in delegation order, joined by the separator, and is absent
\* when there is none.
C13_EachResultOnceInOrder ==
    pc = "think" =>
        /\ combinedResearchResults(st) = JoinedOrAbsent(ReturnedResearch(published))
        /\ combinedCalculationResults(st)
               = JoinedOrAbsent(ReturnedCalculations(published))

-----------------------------------------------------------------------------
(* Properties of the result cache *)

\* The step is a getAsyncResult call (one whose answer differs from the
\* latest answer)
Read == got' # got

\* C14: a getAsyncResult call for a thread returns the value of the thread's
\* most recent resultCache.set exactly when that set is less than CACHE_TTL
\* old, and returns null otherwise, leaving no entry for the thread.
C14_GetReturnsLatestPutWithinTTL ==
    [][Read =>
          LET t == got'.threadId IN
          /\ got'.found <=> (puts[t].present /\ now - puts[t].timestamp < CACHE_TTL)
          /\ got'.found => /\ got'.result = puts[t].result
                           /\ resultCache'[t] = puts[t]
          /\ ~got'.found => ~resultCache'[t].present]_vars

C14_Witness ==
    /\ got.found
    /\ got.result.turnCount = 2
    /\ now - puts[got.threadId].timestamp = CACHE_TTL - 1

\* The step is the end of a chat call that writes its result to the cache
Write == pc = "END" /\ pc' = "idle"

\* C15: after a chat call has written its result, the cache holds the written
\* entry and no entry that is CACHE_TTL old or older, and every younger entry
\* of another thread is as it was.
C15_WriteSweepsExpiredOnly ==
    [][Write =>
          /\ resultCache'[st.threadId] = puts'[st.threadId]
          /\ \A t \in ThreadIds :
                /\ resultCache'[t].present
                       => now - resultCache'[t].timestamp < CACHE_TTL
                /\ (/\ t # st.threadId
                    /\ resultCache[t].present
                    /\ now - resultCache[t].timestamp < CACHE_TTL)
                       => resultCache'[t] = resultCache[t]]_vars

C15_Witness ==
    /\ got = NoResult
    /\ puts["t1"].present /\ ~resultCache["t1"].present
    /\ resultCache["t2"].present
    /\ now - puts["t1"].timestamp = CACHE_TTL

\* C16: a getAsyncResult call for the thread of a chat call that has not yet
\* published `complete` returns null.
C16_NotFoundBeforeComplete ==
    [][(Read /\ pc # "idle" /\ got'.threadId = st.threadId) => ~got'.found]_vars

-----------------------------------------------------------------------------
(* Properties of failing chat calls *)

\* C17: an error that leaves the graph is caught by chat: the next step of
\* the call publishes an `error` event for that error and ends the call by
\* rejecting, the cache is not written by that step, and no step of a call
\* other than the one that follows the graph reaching END writes the cache.
C17_OrchestrationErrorCaught ==
    [][/\ pc = "error" =>
            /\ pc' = "idle"
            /\ chatResult'.kind = "threw"
            /\ Len(published') > Len(published)
            /\ SubSeq(published', 1, Len(published)) = published
            /\ published'[Len(published) + 1] = ErrorEvent(thrown)
            /\ resultCache' = resultCache
            /\ puts' = puts
       /\ pc # "END" => resultCache' = resultCache]_vars

C17_Witness ==
    /\ pc = "idle" /\ chatResult.kind = "threw"
    /\ thrown = SearchError
    /\ Len(published) > 0
    /\ published[Len(published)] = ErrorEvent(SearchError)
    /\ ~resultCache["t1"].present

\* The positions of the terminal events among the events of a request
TerminalEvents(events) ==
    {i \in DOMAIN events : events[i].status \in {"complete", "error"}}

\* C18: when no publish fails, the events of a chatAsync request hold at most
\* one terminal event, which is the last event, and exactly one once the
\* request has ended.
C18_OneTerminalEvent ==
    (chatRequest.async /\ thrown # PublishError) =>
        /\ Cardinality(TerminalEvents(published)) <= 1
        /\ TerminalEvents(published) \subseteq {Len(published)}
        /\ pc = "idle" => Cardinality(TerminalEvents(published)) = 1

\* The texts of the errors that can be thrown: messages, names and stacks
RawTexts ==
    UNION {IF e.isError THEN {e.message, e.name, Stack(e)} ELSE {e.message} :
               e \in Errors}

\* C19: the error text of every published `error` event is one of the texts
\* getUserFriendlyError returns, and is not the message, the name or the
\* stack of an error.
C19_ErrorTextIsUserFriendly ==
    \A i \in DOMAIN published :
        published[i].status = "error" =>
            /\ published[i].error \in FriendlyTexts
            /\ published[i].error \notin RawTexts

C19_Witness ==
    /\ pc = "idle" /\ chatResult.kind = "threw"
    /\ thrown = Err(<<"Error">>, <<"Invalid", " ", "input">>)
    /\ Len(published) > 0
    /\ published[Len(published)].error = InvalidInputText

\* C20: a failing publish is never thrown: no chat or chatAsync call ends by
\* rejecting with the error of a publish.
C20_PublishErrorNeverThrown == thrown # PublishError

-----------------------------------------------------------------------------
(* Properties of tool failures *)

\* The step is searchNode with tavilySearch throwing
SearchFailed ==
    /\ pc = "research" /\ wrNode = "search"
    /\ Truthy(wr.pending_search_query)
    /\ thrown' = SearchError

\* The step is executeNode with the interpreter failing to load
SandboxFailed ==
    /\ pc = "calculate" /\ calcNode = "execute"
    /\ Truthy(calc.pending_python_code)
    /\ calc'.python_code_response =
           pythonExecutor(calc.pending_python_code, SandboxUnavailable)

\* C21: a step in which the search throws or the interpreter cannot be
\* loaded ends the subagent run and leaves the top-level graph by an error.
C21_ToolFailurePropagates ==
    [][(SearchFailed \/ SandboxFailed) =>
          /\ pc' = "error"
          /\ wrNode' = "none" /\ calcNode' = "none"]_vars

-----------------------------------------------------------------------------
(* Properties of status delivery *)

\* C22: no status update is emitted twice to one connection.
C22_DeliveredAtMostOnce ==
    \A c \in Conns :
        \A i, j \in DOMAIN emitted[c] :
            emitted[c][i] = emitted[c][j] => i = j

\* The listeners of c that emit when a message is published now: those
\* whose channel the subscriber is subscribed to
ActiveListeners(c) ==
    {i \in DOMAIN listeners :
        listeners[i].client = c /\ listeners[i].channel \in channels}

\* C23: a connection has at most one listener that emits, and it is the
\* listener for the thread the connection subscribed to last.
C23_AtMostOneActiveSubscription ==
    \A c \in Conns :
        /\ Cardinality(ActiveListeners(c)) <= 1
        /\ \A i \in ActiveListeners(c) :
              /\ clients[c].present
              /\ listeners[i].channel = Channel(clients[c].threadId)

\* C24: a connection without a subscription (it unsubscribed, disconnected
\* or never subscribed) has no listener registered on its behalf.
C24_ListenersReleased ==
    \A c \in Conns :
        ~clients[c].present =>
            \A i \in DOMAIN listeners : listeners[i].client # c

-----------------------------------------------------------------------------
(* Properties of a turn with one research round *)

StatusesOf(events) == [i \in DOMAIN events |-> events[i].status]

\* The first chat call has ended with a response after exactly one
\* delegation, a research run that returned
OneResearchRound ==
    /\ pc = "idle" /\ chatResult.kind = "ok"
    /\ turns = 1 /\ delegations = 1
    /\ decision.kind = "response"
    /\ Len(ReturnedResearch(published)) = 1

\* C26 as stated: the status events of a turn with one research round are
\* thinking, researching, researching, thinking, responding.
C26_FiveStatusEvents ==
    OneResearchRound =>
        StatusesOf(published) =
            <<"thinking", "researching", "researching", "thinking", "responding">>

\* The events chat and the nodes publish in such a turn, and which of them
\* carries a preview
C26_EightStatusEvents ==
    OneResearchRound =>
        /\ StatusesOf(published) =
               <<"thinking", "thinking", "researching", "researching",
                 "researching", "thinking", "responding", "complete">>
        /\ \A i \in 1..7 : published[i].researchResults # UNDEF <=> i = 5

\* The step is researchNode returning from the research run
ResearchReturned == pc = "research" /\ wrNode = "END" /\ pc' = "think"

\* The event researchNode publishes on return carries the first
\* PREVIEW_LIMIT characters of the research result
C26_PreviewIsPrefix ==
    [][ResearchReturned =>
          LET preview == published'[Len(published')].researchResults
              result == st'.research_results
          IN  /\ Len(published') = Len(published) + 1
              /\ Len(preview) <= PREVIEW_LIMIT
              /\ IsPrefix(preview, result)
              /\ Len(result) > PREVIEW_LIMIT => Len(preview) = PREVIEW_LIMIT]_vars

\* C26, amended: a sync turn with one research round publishes thinking
\* twice (chat, then THINK), researching three times (THINK's decision,
\* researchNode's start, researchNode's return with the preview), thinking,
\* responding and complete, in that order; the preview is the first
\* PREVIEW_LIMIT characters of the research result.
C26_StatusOrder == []C26_EightStatusEvents /\ C26_PreviewIsPrefix

C26_Witness ==
    /\ OneResearchRound
    /\ Len(published[5].researchResults) = PREVIEW_LIMIT

\* C27: the result of a chat call in which a research run returned has its
\* researchResults set, in what chat returns and in the cache, and likewise
\* calculationResults after a calculator run returned.
C27_ResultsSetAfterDelegation ==
    (pc = "idle" /\ chatResult.kind = "ok") =>
        LET t == chatRequest.threadId IN
        /\ Len(ReturnedResearch(published)) > 0 =>
               /\ chatResult.value.researchResults # UNDEF
               /\ resultCache[t].result.researchResults # UNDEF
        /\ Len(ReturnedCalculations(published)) > 0 =>
               /\ chatResult.value.calculationResults # UNDEF
               /\ resultCache[t].result.calculationResults # UNDEF

-----------------------------------------------------------------------------
\* The interpreter failed twice and then succeeded, and the run has ended
\* without a fourth execution
FailedTwiceThenSucceeded ==
    /\ calcNode = "END"
    /\ calc.all_execution_results =
           <<pythonExecutor(<<"print(x)">>, [ok |-> FALSE, text |-> <<"boom">>]),
             pythonExecutor(<<"print(x)">>, [ok |-> FALSE, text |-> <<"boom">>]),
             pythonExecutor(<<"print(x)">>, [ok |-> TRUE, text |-> <<"out">>])>>

\* The number of times analyzeNode has run: every superstep of the run is an
\* analyzeNode or an executeNode
AnalyzeCount == steps - calls.exec

\* C28: in a calculator run whose code fails twice and then succeeds, the
\* run ends after 3 passes through ANALYZE, complete is true at the end and
\* iteration_count is 3.
C28_ThreeAnalyzeThreeIterations ==
    FailedTwiceThenSucceeded =>
        /\ AnalyzeCount = 3
        /\ calc.complete
        /\ calc.iteration_count = 3

\* What the code does in that run: at least four passes through ANALYZE
\* (three that produce code and the one that concludes; more when the Oracle
\* also hands back empty code), and the concluding one counts as an
\* iteration too
C28_FourAnalyzeFourIterations ==
    FailedTwiceThenSucceeded =>
        /\ AnalyzeCount >= 4
        /\ calls.exec = 3
        /\ calc.complete
        /\ calc.iteration_count = 4

\* A chat invocation is in flight from its first publish until it has
\* returned or thrown
InFlight == pc # "idle"

OtherInFlight == other.pc # "idle"

\* C29: no two chat invocations are in flight on the persisted state of one
\* thread at the same time.
C29_OneInvocationPerThread ==
    ~(InFlight /\ OtherInFlight /\ other.st.threadId = st.threadId)

\* Connection c is subscribed to thread t and the subscriber connection
\* receives what is published for t
Served(c, t, cl, ch) ==
    /\ cl[c].present /\ cl[c].threadId = t
    /\ Channel(t) \in ch

\* C30 (status events): a subscribe request of a connection for thread a
\* leaves every other connection that is subscribed to a different thread b
\* served: what is published for b afterwards still reaches it.
C30_SubscribeLeavesOtherThreadsServed ==
    [][\A c \in Conns, a \in ThreadIds :
          HandleSubscribe(c, a) =>
              \A c2 \in Conns \ {c}, b \in ThreadIds \ {a} :
                  Served(c2, b, clients, channels)
                      => Served(c2, b, clients', channels')]_vars

-----------------------------------------------------------------------------
(* Properties of the subagent run identifiers *)

ResearchDelegated == wrNode = "none" /\ wrNode' = "analyze"

CalculationDelegated == calcNode = "none" /\ calcNode' = "analyze"

\* C31: the identifier of each delegation differs from the identifiers of
\* all earlier delegations, and the run starts from empty results and
\* iteration_count 0, with nothing of an earlier run in its state.
C31_FreshRunPerDelegation ==
    [][/\ ResearchDelegated =>
              /\ thread_id' \notin DOMAIN researchSaver
              /\ wr' = ResearchInput(st.pending_research_query)
       /\ CalculationDelegated =>
              /\ thread_id' \notin DOMAIN calculatorSaver
              /\ calc' = CalculatorInput(st.pending_calculation_request)]_vars

-----------------------------------------------------------------------------
(* Properties of the top-level loop *)

TurnInFlight == pc \in {"format_input", "think", "research", "calculate"}

C33_Safety ==
    /\ supersteps <= 25
    /\ pc # "END"
    /\ pc = "error" => thrown = RecursionError /\ supersteps = 25

C33_TurnEnds == TurnInFlight ~> (pc = "error")

SkippedToThink ==
    /\ pc' = "think"
    /\ published' = published
    /\ UNCHANGED <<wr, wrNode, calc, calcNode, researchSaver, calculatorSaver>>
    /\ st'.current_action = "thinking"
    /\ st'.messages = st.messages
    /\ st'.turnCount = st.turnCount
    /\ st'.planning_steps = st.planning_steps
    /\ st'.accumulated_research_results = st.accumulated_research_results
    /\ st'.accumulated_calculation_results =
           st.accumulated_calculation_results

\* C34: a RESEARCH (CALCULATE) step taken without a pending query (request)
\* invokes no subagent and publishes nothing, and goes to THINK with
\* current_action thinking and with messages, turnCount, planning text and
\* both accumulated sequences as they were.
C34_SkipWithoutPending ==
    [][/\ (pc = "research" /\ ~Truthy(st.pending_research_query))
              => SkippedToThink
       /\ (pc = "calculate" /\ ~Truthy(st.pending_calculation_request))
              => SkippedToThink]_vars

C34_Witness ==
    /\ pc = "think" /\ st.current_action = "thinking"
    /\ decision.kind = "research_query"
    /\ st.pending_research_query = <<>>
    /\ supersteps = 3

\* The chat call in flight is at the first THINK of its turn
FirstThink == pc = "think" /\ supersteps = 1

\* C35: at the first THINK of a turn both accumulated sequences and both
\* pending slots are empty.
C35_FirstThinkStartsClean ==
    FirstThink =>
        /\ st.accumulated_research_results = <<>>
        /\ st.accumulated_calculation_results = <<>>
        /\ ~Truthy(st.pending_research_query)
        /\ ~Truthy(st.pending_calculation_request)

\* C36: the history returned by a successful chat call contains the text of
\* the request's message as a user message.
C36_MessageInReturnedHistory ==
    (pc = "idle" /\ chatResult.kind = "ok") =>
        \E i \in 1..Len(chatResult.value.messages) :
            chatResult.value.messages[i] =
                [role |-> "user", message |-> chatRequest.message]

\* Connection c leaves thread t: it unsubscribes, disconnects or subscribes
\* to another thread
Leaves(c, t) ==
    \/ HandleUnsubscribe(c)
    \/ HandleDisconnect(c)
    \/ \E t2 \in ThreadIds \ {t} : HandleSubscribe(c, t2)

\* C37: when two connections are subscribed to one thread and one of them
\* leaves it, the other is still served: the thread's channel stays
\* subscribed and its events still reach the other connection.
C37_OtherSubscriberKeepsThread ==
    [][\A c \in Conns, c2 \in Conns, t \in ThreadIds :
          (/\ c # c2
           /\ Served(c, t, clients, channels)
           /\ Served(c2, t, clients, channels)
           /\ Leaves(c, t))
              => Served(c2, t, clients', channels')]_vars

\* C39: once the subscribe messages have been handled, every channel the
\* process is subscribed to is the channel of the unsubscribe handle
\* recorded for some connection, so none is left without a handle that
\* releases it.
C39_EverySubscriptionHasHandle ==
    handlers = {} =>
        \A ch \in channels :
            \E c \in Conns :
                clients[c].present /\ ch = Channel(clients[c].threadId)

-----------------------------------------------------------------------------
(* The frontend client: sendMessage calls made one after the other on the
   shared socket of getSocket, which is connection "c1" of the gateway. A
   message the socket emits is handled by the gateway before the frontend
   takes its next step. The background turns are answered by the Oracle
   with a response at the first THINK, or fail there. *)

\* The delay of the timer sendMessage sets
TIMEOUT == 300000

\* The connection of the socket getSocket returns
FrontSocket == "c1"

\* The locals of one sendMessage call once chat-async has answered:
\* statusHandler is set and registered, finalResult is null, the timer runs
Call(t, time) ==
    [threadId |-> t, statusHandler |-> TRUE, on |-> TRUE,
     finalResult |-> FALSE, fetching |-> FALSE, promise |-> "pending",
     reason |-> "none", timer |-> "set", setAt |-> time]

\* resolve or reject: a promise that has settled stays as it is
Settle(call, outcome, reason) ==
    IF call.promise = "pending"
    THEN [call EXCEPT !.promise = outcome, !.reason = reason]
    ELSE call

\* The gateway forwards updates of thread t to the frontend socket
FrontServed(t) ==
    /\ Channel(t) \in channels
    /\ \E k \in 1..Len(listeners) :
          listeners[k] = [client |-> FrontSocket, channel |-> Channel(t)]

\* The position in published of the next update the socket can receive
FrontCursor == IF front.turn = turns THEN front.next ELSE 1

\* What the frontend steps leave alone in the backend
frontOthers == <<checkpoint, st, pc, published, chatRequest, decision,
                 chatResult, thrown, now, wide, puts, turns, delegations,
                 responded, other, ticks, supersteps>>

\* ws.emit('unsubscribe') and the gateway's handleUnsubscribe
EmitUnsubscribe ==
    /\ channels' = unsubscribe(FrontSocket)
    /\ clients' = [clients EXCEPT ![FrontSocket] = NoClient]

\* sendMessage up to the POST of chat-async, the previous call's POST
\* having been answered
sendMessage(t, message) ==
    /\ Len(front.calls) = turns
    /\ ChatAsyncStart(t, message, <<>>)

\* sendMessage, the callback that receives the answer of chat-async: it
\* emits subscribe, registers statusHandler and sets the timer
SendMessageThen ==
    /\ chatRequest.async
    /\ Len(front.calls) < turns
    /\ sockets[FrontSocket] = "open"
    /\ LET t == chatRequest.threadId IN
       /\ channels' = unsubscribe(FrontSocket) \cup {Channel(t)}
       /\ listeners' = Append(listeners, [client |-> FrontSocket,
                                          channel |-> Channel(t)])
       /\ clients' = [clients EXCEPT
                         ![FrontSocket] = [present |-> TRUE, threadId |-> t]]
       /\ front' = [front EXCEPT
                       !.calls = Append(@, Call(t, now)),
                       !.next = IF FrontServed(t) THEN FrontCursor
                                ELSE Len(published) + 1,
                       !.turn = turns]
    /\ UNCHANGED <<sockets, wire, emitted, sent, handlers>>
    /\ UNCHANGED <<resultCache, got>>
    /\ UNCHANGED frontOthers
    /\ UNCHANGED subVars
    /\ UNCHANGED saverVars

\* statusHandler of every call registered on the socket, run for the next
\* update of the running turn
FrontStatusUpdate ==
    /\ chatRequest.async
    /\ FrontCursor <= Len(published)
    /\ FrontServed(chatRequest.threadId)
    /\ LET u == published[FrontCursor]
           hit(c) == c.on /\ c.threadId = chatRequest.threadId
           rejects == {i \in DOMAIN front.calls :
                          hit(front.calls[i]) /\ u.status = "error"}
           handle(c) ==
               IF ~hit(c) THEN c
               ELSE IF u.status = "complete" /\ ~c.finalResult
                    THEN [c EXCEPT !.fetching = TRUE]
               ELSE IF u.status = "error"
                    THEN Settle([c EXCEPT !.on = FALSE], "rejected", "status")
               ELSE c
       IN /\ front' = [front EXCEPT
                          !.calls = [i \in DOMAIN @ |-> handle(@[i])],
                          !.next = FrontCursor + 1,
                          !.turn = turns,
                          !.unsubscribes = @ + Cardinality(rejects)]
          /\ IF rejects # {}
             THEN EmitUnsubscribe
             ELSE UNCHANGED <<channels, clients>>
    /\ UNCHANGED <<sockets, listeners, wire, emitted, sent, handlers>>
    /\ UNCHANGED <<resultCache, got>>
    /\ UNCHANGED frontOthers
    /\ UNCHANGED subVars
    /\ UNCHANGED saverVars

\* An update of the running turn published while the gateway does not
\* forward the thread to the frontend socket
StatusUpdateLost ==
    /\ chatRequest.async
    /\ FrontCursor <= Len(published)
    /\ ~FrontServed(chatRequest.threadId)
    /\ front' = [front EXCEPT !.next = FrontCursor + 1, !.turn = turns]
    /\ UNCHANGED pubsubVars
    /\ UNCHANGED <<resultCache, got>>
    /\ UNCHANGED frontOthers
    /\ UNCHANGED subVars
    /\ UNCHANGED saverVars

\* statusHandler, the callbacks of the GET of the result: the endpoint
\* answers from getAsyncResult, and 404 when that returns null
FrontResultFetched(i) ==
    /\ i \in DOMAIN front.calls
    /\ front.calls[i].fetching
    /\ LET c == front.calls[i]
           cached == resultCache[c.threadId]
       IN IF cacheValid(cached, now)
          THEN /\ got' = [threadId |-> c.threadId, found |-> TRUE,
                          result |-> cached.result]
               /\ UNCHANGED resultCache
               /\ front' = [front EXCEPT
                     !.calls[i] = Settle([c EXCEPT !.fetching = FALSE,
                                                   !.finalResult = TRUE,
                                                   !.on = FALSE],
                                         "resolved", "result"),
                     !.unsubscribes = @ + 1]
          ELSE /\ got' = [threadId |-> c.threadId, found |-> FALSE,
                          result |-> NoChatResult]
               /\ resultCache' = [resultCache EXCEPT ![c.threadId] = NoEntry]
               /\ front' = [front EXCEPT
                     !.calls[i] = Settle([c EXCEPT !.fetching = FALSE,
                                                   !.on = FALSE],
                                         "rejected", "fetch"),
                     !.unsubscribes = @ + 1]
    /\ EmitUnsubscribe
    /\ UNCHANGED <<sockets, listeners, wire, emitted, sent, handlers>>
    /\ UNCHANGED frontOthers
    /\ UNCHANGED subVars
    /\ UNCHANGED saverVars

\* Mutant: the timer also cancels the background turn
FrontTimeout_Cancels(i) ==
    /\ i \in DOMAIN front.calls
    /\ front.calls[i].timer = "set"
    /\ now - front.calls[i].setAt >= TIMEOUT
    /\ front' = [front EXCEPT
          !.calls[i] = Settle([@ EXCEPT !.timer = "fired", !.on = FALSE],
                              "rejected", "timeout"),
          !.unsubscribes = @ + 1]
    /\ EmitUnsubscribe
    /\ pc' = "idle"
    /\ UNCHANGED <<checkpoint, st, published, chatRequest, decision,
                   chatResult, thrown, now, wide, puts, turns, delegations,
                   responded, other, ticks, supersteps>>
    /\ UNCHANGED <<sockets, listeners, wire, emitted, sent, handlers>>
    /\ UNCHANGED <<resultCache, got>>
    /\ UNCHANGED subVars
    /\ UNCHANGED saverVars

\* sendMessage, the callback of setTimeout, TIMEOUT after it was set
FrontTimeout(i) ==
    /\ i \in DOMAIN front.calls
    /\ front.calls[i].timer = "set"
    /\ now - front.calls[i].setAt >= TIMEOUT
    /\ LET c == front.calls[i] IN
       IF ~c.finalResult /\ c.statusHandler
       THEN /\ front' = [front EXCEPT
                  !.calls[i] = Settle([c EXCEPT !.timer = "fired",
                                                !.on = FALSE],
                                      "rejected", "timeout"),
                  !.unsubscribes = @ + 1]
            /\ EmitUnsubscribe
       ELSE /\ front' = [front EXCEPT !.calls[i].timer = "fired"]
            /\ UNCHANGED <<channels, clients>>
    /\ UNCHANGED <<sockets, listeners, wire, emitted, sent, handlers>>
    /\ UNCHANGED <<resultCache, got>>
    /\ UNCHANGED frontOthers
    /\ UNCHANGED subVars
    /\ UNCHANGED saverVars

\* Five minutes pass; a timer that is due fires before more time passes
FrontTick ==
    /\ \A i \in DOMAIN front.calls :
          front.calls[i].timer = "set" => now - front.calls[i].setAt < TIMEOUT
    /\ Tick(TIMEOUT)

NextFront ==
    \/ \E t \in {"t1"}, m \in UserTexts : sendMessage(t, m)
    \/ SendMessageThen
    \/ FormatInput
    \/ \E d \in {x \in TopDecisions : x.kind = "response"} : Think(d)
    \/ ThinkThrows(OracleError)
    \/ ChatReturn
    \/ ChatCatch
    \/ FrontTick
    \/ FrontStatusUpdate
    \/ StatusUpdateLost
    \/ \E i \in 1..MaxTurns : FrontResultFetched(i)
    \/ \E i \in 1..MaxTurns : FrontTimeout(i)

SpecFront == Init /\ [][NextFront]_vars

\* A sendMessage call is rejected by its timer in this step
TimesOut(i) ==
    /\ i \in DOMAIN front.calls
    /\ front.calls[i].promise = "pending"
    /\ front'.calls[i].reason = "timeout"

\* The background turn of the last sendMessage call ends in this step
TurnEndsAfterTimeout ==
    /\ Len(front.calls) = turns
    /\ turns > 0
    /\ front.calls[turns].reason = "timeout"
    /\ pc = "END"
    /\ pc' = "idle"

\* C32: the wait of a sendMessage call times out TIMEOUT after its timer was
\* set and rejects the call, and that step leaves the background turn as it
\* is (its position, state, checkpoint, status updates and the Result
\* Cache); a turn that reaches its end after the timeout still writes its
\* result to the Result Cache at that moment
C32_TimeoutLeavesTurnRunning ==
    [][/\ \A i \in 1..MaxTurns :
             TimesOut(i) =>
                /\ now - front.calls[i].setAt >= TIMEOUT
                /\ front'.calls[i].promise = "rejected"
                /\ UNCHANGED <<pc, st, checkpoint, published, chatResult,
                               resultCache, decision>>
       /\ TurnEndsAfterTimeout =>
             /\ resultCache'[st.threadId].present
             /\ resultCache'[st.threadId].timestamp = now
             /\ resultCache'[st.threadId].result = chatResult'.value]_vars

\* The last sendMessage call timed out while its turn was running, and the
\* turn has since ended and written its result
C32_Witness ==
    /\ turns > 0
    /\ Len(front.calls) = turns
    /\ front.calls[turns].reason = "timeout"
    /\ pc = "idle"
    /\ chatResult.kind = "ok"
    /\ resultCache[front.calls[turns].threadId].present
    /\ resultCache[front.calls[turns].threadId].timestamp
          >= front.calls[turns].setAt + TIMEOUT

\* C38: once a sendMessage call has settled, resolved with the result or
\* rejected on an error status, no later step of that call emits unsubscribe
\* on the shared socket or changes what the gateway forwards to the socket
C38_SettledCallStaysQuiet ==
    [][\A i \in 1..MaxTurns :
          (/\ i \in DOMAIN front.calls
           /\ front.calls[i].reason \in {"result", "status"}
           /\ front'.calls[i] # front.calls[i])
          => /\ front'.unsubscribes = front.unsubscribes
             /\ clients' = clients
             /\ channels' = channels]_vars

====
